---- MODULE Spec2Model ----
(***************************************************************************)
(* Verification model of the bichon e-mail archiver.                       *)
(*                                                                         *)
(* Part I  : the batched index writer (indexer/manager.rs): write queue,   *)
(*           writer task, drain_and_commit, fatal_commit, the delete_* and *)
(*           update_envelope_tags operations, reader snapshots.            *)
(* Part II : authorisation and the read API (common/auth.rs,               *)
(*           rest/api/message.rs, message/search.rs).                      *)
(* Part III: access-token resolution (token/mod.rs).                       *)
(* Part IV : users: login, create, update, remove (users/mod.rs).          *)
(* Part V  : accounts: create_account, delete (account/migration.rs).      *)
(* Part VI : ingestion: MBOX import, EML batch import, IMAP fetch          *)
(*           (import/mbox.rs, import/mod.rs, mbox/migration.rs,            *)
(*           imap/executor.rs) and the EML index get.                      *)
(* Part VII: requests of the message API behind the middleware             *)
(*           (rest/api/message.rs, common/auth.rs, indexer/manager.rs).    *)
(* Part VIII: the MBOX import scenario against the clock of the writer     *)
(*           tasks (import/mbox_tests.rs, indexer/manager.rs).             *)
(* Part IX : retrieval by sequence number (imap/executor.rs).              *)
(* Part X  : concurrent callers of reset_webui_token (token/mod.rs).       *)
(* Part XI : a delete while documents wait in the write queue              *)
(*           (indexer/manager.rs).                                         *)
(* Part XII: the handlers that change roles and access maps                *)
(*           (rest/api/users.rs, account/grant.rs).                        *)
(* Part XIII: the offset of a search page in 64 bits (message/search.rs,   *)
(*           indexer/manager.rs).                                          *)
(***************************************************************************)
EXTENDS Bags, FiniteSets, Integers, Sequences, TLC

VARIABLES
    \* ---- Part I: one index manager (envelope or EML) ----
    idx,          \* which manager the behaviour is about: "envelope" | "eml"
    queue,        \* mpsc channel contents (WriteMessage values, FIFO)
    buffer,       \* the writer task's HashMap<u64, TantivyDocument>
    wpc,          \* position of the writer task
    wafter,       \* where the writer task continues after drain_and_commit
    wscript,      \* IndexWriter calls drain_and_commit still has to make
    pending,      \* operations handed to the IndexWriter and not yet committed
    committed,    \* the committed index (a bag of documents)
    lockHolder,   \* owner of the Arc<Mutex<IndexWriter>>
    fc,           \* progress of the current / last fatal_commit call
    exitCode,     \* 0 while the process runs, 1 after std::process::exit(1)
    sig,          \* shutdown broadcast: "none" | "sent" | "received"
    nAdds,        \* number of add_document calls so far
    lastAdded,    \* history: per id, the body of the document enqueued last
    flushPre,     \* history: committed index when the running flush took the lock
    flushBatch,   \* history: the batch of the running flush
    stopped,      \* accounts whose sync was stopped (stop has returned)
    \* ---- Part I: the task running delete_* / update_envelope_tags ----
    apc,          \* position of the admin task
    ascript,      \* IndexWriter calls the admin operation still has to make
    aop,          \* the admin operation in progress (record)
    nAdmin,       \* number of admin operations started so far
    \* ---- Part II: the caller of the read API ----
    user,         \* ClientContext.user: global_roles, account_access_map
    roles,        \* the UserRole table: role id -> permissions
    apiResult,    \* the answer to the last API call
    \* ---- Part III: access tokens ----
    now,          \* utc_now!() in milliseconds
    tokens,       \* AccessTokenModel records by token string
    userIds,      \* ids of the users in the metadata store
    tokResult,    \* the answer of the last resolve_user_from_token
    expiredSeen,  \* history: tokens that were rejected as expired
    \* ---- Part IV: users ----
    userRecs,     \* UserModel rows by id
    userResult,   \* the answer to the last user operation
    \* ---- Part V: accounts ----
    accountRows,  \* ids of the AccountModel rows in the metadata store
    inserted,     \* history: account_type of every account row ever committed
    cleaned,      \* history: <<step, account>> for every cleanup step that succeeded
    accTask,      \* the create_account / delete call in progress or returned
    syncTasks,    \* accounts for which a sync task was triggered and not stopped
    \* ---- Part VI: ingestion (MBOX import, EML batch import, IMAP fetch) ----
    mboxFiles,    \* MboxFile rows of the metadata store
    reg,          \* per caller, the MboxFile::register call in progress or returned
    envDocs,      \* history: ENVELOPE_INDEX_MANAGER.add_document calls, in order
    emlDocs,      \* history: EML_INDEX_MANAGER.add_document calls, in order
    nCommitted,   \* number of the emlDocs the EML index searcher reflects
    job,          \* the import or fetch call in progress or returned
    getResult,    \* the answer to the last EML index get
    runningState, \* history: writes of AccountRunningState and fetches, in order
    \* ---- Part VII: requests of the message API ----
    envelopeIndex, \* the envelope index: committed documents, pending deletes
    emlIndex,     \* the EML index: committed documents, pending deletes
    delTask,      \* the delete-messages request in progress or returned
    limiters,     \* RATE_LIMITER_MANAGER: the rate limiter of a user id
    guardLog,     \* history: the requests the middleware has answered
    \* ---- Part VIII: the import scenario against the clock ----
    mboxTest,     \* position of test_import_mbox_with_attachment
    \* ---- Part X: concurrent callers of the metadata store ----
    resetTasks,   \* per caller, the reset_webui_token call in progress or returned
    \* ---- Part XI: deletes against the write queue ----
    deleteDone    \* history: the deletes that returned Ok, with nAdds at the return

ivars == <<idx, queue, buffer, wpc, wafter, wscript, pending, committed,
           lockHolder, fc, exitCode, sig, nAdds, lastAdded, flushPre,
           flushBatch, stopped>>
avars == <<apc, ascript, aop, nAdmin>>
uvars == <<userRecs, userResult>>
cvars == <<accountRows, inserted, cleaned, accTask, syncTasks>>
mvars == <<mboxFiles, reg, envDocs, emlDocs, nCommitted, job, getResult,
           runningState>>
zvars == <<resetTasks, deleteDone>>
rvars == <<envelopeIndex, emlIndex, delTask, limiters, guardLog, mboxTest,
           zvars>>
pvars == <<uvars, cvars, mvars, rvars>>
xvars == <<user, roles, apiResult, now, tokens, userIds, tokResult, expiredSeen,
           pvars>>
vars == <<ivars, avars, xvars>>

(***************************************************************************)
(* Bounds of the model                                                     *)
(***************************************************************************)
MaxId == 2          \* document ids 1..MaxId
MaxBody == 2        \* distinct document contents per id
MaxAdds == 3        \* add_document calls per behaviour
MaxAdminOps == 1    \* delete_* / update_envelope_tags calls per behaviour

\* The batch thresholds and channel capacities of the program, scaled down
\* (1000, 200, 1000, 100 in the source); the envelope channel holds a whole
\* batch, the EML channel less than a batch, as in the source.
ENVELOPE_BATCH_SIZE == 2
EML_BATCH_SIZE == 2
ENVELOPE_CHANNEL_CAPACITY == 2
EML_CHANNEL_CAPACITY == 1

MAX_RETRIES == 3
RETRY_DELAY_MS == 1000

Ids == 1..MaxId
Accounts == {1, 2}
Bodies == 1..MaxBody
\* A tag is a facet: a path of segments ("/work" is <<"work">>).
TagSets == {{}, {<<"work">>}}

\* The id of an envelope is derived from (account, mailbox, uid): an id
\* belongs to one account.
AccountOf(e) == IF e = MaxId THEN 2 ELSE 1

Doc(e, a, b, t) == [id |-> e, account |-> a, body |-> b, tags |-> t]
NoDoc == Doc(0, 0, 0, {})

\* enum WriteMessage
Document(e, d) == [type |-> "Document", eid |-> e, doc |-> d]
Shutdown == [type |-> "Shutdown", eid |-> 0, doc |-> NoDoc]

BatchSize == IF idx = "envelope" THEN ENVELOPE_BATCH_SIZE ELSE EML_BATCH_SIZE
ChannelCapacity ==
    IF idx = "envelope" THEN ENVELOPE_CHANNEL_CAPACITY ELSE EML_CHANNEL_CAPACITY

Alive == exitCode = 0

(***************************************************************************)
(* The IndexWriter: operations and their effect at commit                  *)
(***************************************************************************)
OpDelete(e) == [op |-> "Delete", id |-> e, account |-> 0, doc |-> NoDoc]
OpDeleteQuery(a, e) == [op |-> "DeleteQuery", id |-> e, account |-> a, doc |-> NoDoc]
OpAdd(d) == [op |-> "Add", id |-> d.id, account |-> d.account, doc |-> d]

BagKeep(B, keep(_)) == [d \in {x \in DOMAIN B : keep(x)} |-> B[d]]

\* Term / query matching of one operation against a stored document.
\* DeleteQuery with id 0 is the account query, otherwise the envelope query.
Matches(o, d) ==
    CASE o.op = "Delete" -> d.id = o.id
      [] o.op = "DeleteQuery" -> d.account = o.account /\ (o.id = 0 \/ d.id = o.id)
      [] OTHER -> FALSE

ApplyOp(B, o) ==
    IF o.op = "Add" THEN B (+) SetToBag({o.doc})
    ELSE LET keep(d) == ~Matches(o, d) IN BagKeep(B, keep)

RECURSIVE ApplyOps(_, _)
ApplyOps(B, ops) ==
    IF ops = <<>> THEN B ELSE ApplyOps(ApplyOp(B, Head(ops)), Tail(ops))

DocsWithId(B, e) == LET keep(d) == d.id = e IN BagKeep(B, keep)

CountId(B, e) == BagCardinality(DocsWithId(B, e))

(***************************************************************************)
(* drain_and_commit and fatal_commit                                       *)
(***************************************************************************)
CallRun(ops) == [call |-> "run", ops |-> ops]
CallCommit == [call |-> "commit", ops |-> <<>>]

RECURSIVE SeqOfSet(_)
SeqOfSet(S) ==
    IF S = {} THEN <<>>
    ELSE LET m == CHOOSE x \in S : \A y \in S : x <= y
         IN <<m>> \o SeqOfSet(S \ {m})

RECURSIVE DrainPairs(_, _)
DrainPairs(buf, order) ==
    IF order = <<>> THEN <<>>
    ELSE <<OpDelete(Head(order)), OpAdd(buf[Head(order)])>>
         \o DrainPairs(buf, Tail(order))

\* The operations vector built from the drained buffer: Delete(id), Add(doc)
\* for every entry.
DrainOperations(buf) == DrainPairs(buf, SeqOfSet(DOMAIN buf))

RECURSIVE DrainDeletes(_)
DrainDeletes(order) ==
    IF order = <<>> THEN <<>>
    ELSE <<OpDelete(Head(order))>> \o DrainDeletes(Tail(order))

RECURSIVE DrainAdds(_, _)
DrainAdds(buf, order) ==
    IF order = <<>> THEN <<>>
    ELSE <<OpAdd(buf[Head(order)])>> \o DrainAdds(buf, Tail(order))

\* Faulty variant of drain_and_commit: deletions committed on their own, insertions
\* in a second transaction.
drain_and_commit_two_phase(buf) ==
    << CallRun(DrainDeletes(SeqOfSet(DOMAIN buf))), CallCommit,
       CallRun(DrainAdds(buf, SeqOfSet(DOMAIN buf))), CallCommit >>

\* Faulty variant of drain_and_commit: the documents are added without the
\* preceding Delete(id).
drain_and_commit_no_delete(buf) ==
    << CallRun(DrainAdds(buf, SeqOfSet(DOMAIN buf))), CallCommit >>

\* drain_and_commit after the is_empty check and the lock: one
\* writer.run(operations), then fatal_commit.
drain_and_commit(buf) == << CallRun(DrainOperations(buf)), CallCommit >>

FatalCommitIdle == [outcomes |-> <<>>, sleeps |-> <<>>, status |-> "idle"]
FatalCommitBegin == [outcomes |-> <<>>, sleeps |-> <<>>, status |-> "running"]

\* Faulty variant of RetryDelayMs: constant backoff.
RetryDelayConstant(attempt) == RETRY_DELAY_MS

\* RETRY_DELAY_MS * (attempt as u64 + 1)
RetryDelayMs(attempt) == RETRY_DELAY_MS * (attempt + 1)

\* One iteration of `for attempt in 0..=MAX_RETRIES` with the given result
\* of writer.commit(): "ok" | "io" | "other".
FatalCommitStep(c, outcome) ==
    LET attempt == Len(c.outcomes)
        outs == Append(c.outcomes, outcome)
    IN  CASE outcome = "ok" ->
                [c EXCEPT !.outcomes = outs, !.status = "returned"]
          [] outcome = "io" /\ attempt < MAX_RETRIES ->
                [c EXCEPT !.outcomes = outs,
                          !.sleeps = Append(@, RetryDelayMs(attempt))]
          [] OTHER ->
                [c EXCEPT !.outcomes = outs, !.status = "exit"]

CommitOutcomes == {"ok", "io", "other"}

(***************************************************************************)
(* Initial state of an index manager                                       *)
(***************************************************************************)
EmptyBuffer == << >>

InitIndex ==
    /\ idx \in {"envelope", "eml"}
    /\ queue = <<>>
    /\ buffer = EmptyBuffer
    /\ wpc = "select"
    /\ wafter = "select"
    /\ wscript = <<>>
    /\ pending = <<>>
    /\ committed = EmptyBag
    /\ lockHolder = "none"
    /\ fc = FatalCommitIdle
    /\ exitCode = 0
    /\ sig = "none"
    /\ nAdds = 0
    /\ lastAdded = [e \in Ids |-> 0]
    /\ flushPre = EmptyBag
    /\ flushBatch = EmptyBuffer
    /\ stopped = {}

InitAdmin ==
    /\ apc = "idle"
    /\ ascript = <<>>
    /\ aop = [kind |-> "none"]
    /\ nAdmin = 0


(***************************************************************************)
(* Variables of the other parts (unchanged by every index action)          *)
(***************************************************************************)
NoUser == [global_roles |-> {}, account_access_map |-> << >>]
NoResult == [op |-> "none"]

\* The variables of Parts IV and later, where a part does not use them.
InitU ==
    /\ userRecs = << >>
    /\ userResult = NoResult

InitC ==
    /\ accountRows = {}
    /\ inserted = << >>
    /\ cleaned = {}
    /\ accTask = [pc |-> "idle"]
    /\ syncTasks = {}

InitM ==
    /\ mboxFiles = {}
    /\ reg = << >>
    /\ envDocs = << >>
    /\ emlDocs = << >>
    /\ nCommitted = 0
    /\ job = [pc |-> "idle"]
    /\ getResult = NoResult
    /\ runningState = << >>

EmptyIndex == [committed |-> {}, pending |-> {}]

\* The callers of Part X are idle.
InitZ == resetTasks = << >> /\ deleteDone = << >>

InitR ==
    /\ envelopeIndex = EmptyIndex
    /\ emlIndex = EmptyIndex
    /\ delTask = [pc |-> "idle"]
    /\ limiters = << >>
    /\ guardLog = << >>
    /\ mboxTest = [pc |-> "idle"]
    /\ InitZ

InitP == InitU /\ InitC /\ InitM /\ InitR

InitX ==
    /\ InitP
    /\ user = NoUser
    /\ roles = << >>
    /\ apiResult = NoResult
    /\ now = 0
    /\ tokens = << >>
    /\ userIds = {}
    /\ tokResult = NoResult
    /\ expiredSeen = {}

(***************************************************************************)
(* Producers: add_document                                                 *)
(***************************************************************************)
\* sender.send(WriteMessage::Document((eid, doc))).await: waits for channel
\* capacity; the documents of an account are produced by its sync worker.
AddDocument(e, b) ==
    /\ Alive
    /\ nAdds < MaxAdds
    /\ wpc # "done"
    /\ AccountOf(e) \notin stopped
    /\ Len(queue) < ChannelCapacity
    /\ queue' = Append(queue, Document(e, Doc(e, AccountOf(e), b, {})))
    /\ lastAdded' = [lastAdded EXCEPT ![e] = b]
    /\ nAdds' = nAdds + 1
    /\ UNCHANGED <<idx, buffer, wpc, wafter, wscript, pending, committed,
                   lockHolder, fc, exitCode, sig, flushPre, flushBatch,
                   stopped, avars, xvars>>

(***************************************************************************)
(* The writer task: loop { tokio::select! { ... } }                        *)
(***************************************************************************)
BufferInsert(buf, e, d) ==
    [x \in (DOMAIN buf) \cup {e} |-> IF x = e THEN d ELSE buf[x]]

BufferLen(buf) == Cardinality(DOMAIN buf)

\* Faulty variant of FlushDue: the threshold is never reached.
FlushDueNever(buf) == FALSE

\* buffer.len() >= ENVELOPE_BATCH_SIZE (EML_BATCH_SIZE)
FlushDue(buf) == BufferLen(buf) >= BatchSize

\* Some(WriteMessage::Document((eid, doc)))
RecvDocument ==
    /\ Alive
    /\ wpc = "select"
    /\ queue # <<>>
    /\ Head(queue).type = "Document"
    /\ LET m == Head(queue)
           buf == BufferInsert(buffer, m.eid, m.doc)
       IN  /\ buffer' = buf
           /\ wpc' = IF FlushDue(buf) THEN "lock" ELSE "select"
    /\ wafter' = "select"
    /\ queue' = Tail(queue)
    /\ UNCHANGED <<idx, wscript, pending, committed, lockHolder, fc, exitCode,
                   sig, nAdds, lastAdded, flushPre, flushBatch, stopped,
                   avars, xvars>>

\* Some(WriteMessage::Shutdown): drain_and_commit, then break
RecvShutdown ==
    /\ Alive
    /\ wpc = "select"
    /\ queue # <<>>
    /\ Head(queue).type = "Shutdown"
    /\ queue' = Tail(queue)
    /\ wpc' = IF buffer = EmptyBuffer THEN "done" ELSE "lock"
    /\ wafter' = "done"
    /\ UNCHANGED <<idx, buffer, wscript, pending, committed, lockHolder, fc,
                   exitCode, sig, nAdds, lastAdded, flushPre, flushBatch,
                   stopped, avars, xvars>>

\* _ = interval.tick() with a non-empty buffer (with an empty buffer the
\* branch changes nothing)
Tick ==
    /\ Alive
    /\ wpc = "select"
    /\ buffer # EmptyBuffer
    /\ wpc' = "lock"
    /\ wafter' = "select"
    /\ UNCHANGED <<idx, queue, buffer, wscript, pending, committed, lockHolder,
                   fc, exitCode, sig, nAdds, lastAdded, flushPre, flushBatch,
                   stopped, avars, xvars>>

\* _ = shutdown.recv(): the task starts sender.send(Shutdown).await
RecvShutdownSignal ==
    /\ Alive
    /\ wpc = "select"
    /\ sig = "sent"
    /\ sig' = "received"
    /\ wpc' = "send_shutdown"
    /\ UNCHANGED <<idx, queue, buffer, wafter, wscript, pending, committed,
                   lockHolder, fc, exitCode, nAdds, lastAdded, flushPre,
                   flushBatch, stopped, avars, xvars>>

\* The send completes once the channel has capacity.
SendCanComplete(q) == Len(q) < ChannelCapacity

SendShutdown ==
    /\ Alive
    /\ wpc = "send_shutdown"
    /\ SendCanComplete(queue)
    /\ queue' = Append(queue, Shutdown)
    /\ wpc' = "select"
    /\ UNCHANGED <<idx, buffer, wafter, wscript, pending, committed, lockHolder,
                   fc, exitCode, sig, nAdds, lastAdded, flushPre, flushBatch,
                   stopped, avars, xvars>>

\* drain_and_commit: self.index_writer.lock().await, buffer.drain()
FlushLock ==
    /\ Alive
    /\ wpc = "lock"
    /\ lockHolder = "none"
    /\ lockHolder' = "writer"
    /\ wscript' = drain_and_commit(buffer)
    /\ buffer' = EmptyBuffer
    /\ wpc' = "exec"
    /\ flushPre' = committed
    /\ flushBatch' = buffer
    /\ UNCHANGED <<idx, queue, wafter, pending, committed, fc, exitCode, sig,
                   nAdds, lastAdded, stopped, avars, xvars>>

\* The writer leaves drain_and_commit when no call is left: the guard is
\* dropped and the loop continues (or ends after Shutdown).
WriterAfter(script) ==
    /\ wscript' = script
    /\ IF script = <<>>
       THEN /\ lockHolder' = "none"
            /\ wpc' = wafter
            /\ flushPre' = EmptyBag
            /\ flushBatch' = EmptyBuffer
       ELSE UNCHANGED <<lockHolder, wpc, flushPre, flushBatch>>

\* writer.run(operations) succeeded
FlushRun ==
    /\ Alive
    /\ wpc = "exec"
    /\ Head(wscript).call = "run"
    /\ pending' = pending \o Head(wscript).ops
    /\ WriterAfter(Tail(wscript))
    /\ UNCHANGED <<idx, queue, buffer, wafter, committed, fc, exitCode, sig,
                   nAdds, lastAdded, stopped, avars, xvars>>

\* writer.run(operations) failed: std::process::exit(1)
FlushRunFails ==
    /\ Alive
    /\ wpc = "exec"
    /\ Head(wscript).call = "run"
    /\ exitCode' = 1
    /\ UNCHANGED <<idx, queue, buffer, wpc, wafter, wscript, pending, committed,
                   lockHolder, fc, sig, nAdds, lastAdded, flushPre, flushBatch,
                   stopped, avars, xvars>>

\* fatal_commit(&mut writer): one attempt of writer.commit().  When the
\* routine returns its locals are gone (fc is idle again).
FlushCommit(outcome) ==
    /\ Alive
    /\ wpc = "exec"
    /\ Head(wscript).call = "commit"
    /\ LET cur == IF fc.status = "running" THEN fc ELSE FatalCommitBegin
           nxt == FatalCommitStep(cur, outcome)
       IN  CASE nxt.status = "returned" ->
                   /\ fc' = FatalCommitIdle
                   /\ committed' = ApplyOps(committed, pending)
                   /\ pending' = <<>>
                   /\ WriterAfter(Tail(wscript))
                   /\ UNCHANGED exitCode
             [] nxt.status = "exit" ->
                   /\ fc' = nxt
                   /\ exitCode' = 1
                   /\ UNCHANGED <<committed, pending, wscript, lockHolder, wpc,
                                  flushPre, flushBatch>>
             [] OTHER ->
                   /\ fc' = nxt
                   /\ UNCHANGED <<committed, pending, wscript, lockHolder, wpc,
                                  flushPre, flushBatch, exitCode>>
    /\ UNCHANGED <<idx, queue, buffer, wafter, sig, nAdds, lastAdded, stopped,
                   avars, xvars>>

(***************************************************************************)
(* Environment: shutdown broadcast, the sync controller                    *)
(***************************************************************************)
\* SIGNAL_MANAGER broadcasts the process-wide shutdown once.
ShutdownBroadcast ==
    /\ Alive
    /\ sig = "none"
    /\ sig' = "sent"
    /\ UNCHANGED <<idx, queue, buffer, wpc, wafter, wscript, pending, committed,
                   lockHolder, fc, exitCode, nAdds, lastAdded, flushPre,
                   flushBatch, stopped, avars, xvars>>

\* SYNC_TASKS.stop(account): the worker of the account is cancelled and torn
\* down; when stop returns the worker issues no further add_document.
SyncStop(a) ==
    /\ Alive
    /\ stopped = {}
    /\ stopped' = {a}
    /\ UNCHANGED <<idx, queue, buffer, wpc, wafter, wscript, pending, committed,
                   lockHolder, fc, exitCode, sig, nAdds, lastAdded, flushPre,
                   flushBatch, avars, xvars>>

\* What a reader gets from create_searcher at this instant:
\* self.reader.reload() makes the last commit visible, searcher() pins it.
create_searcher == committed

WriterNext ==
    \/ RecvDocument
    \/ RecvShutdown
    \/ Tick
    \/ RecvShutdownSignal
    \/ SendShutdown
    \/ FlushLock
    \/ FlushRun
    \/ FlushRunFails
    \/ \E o \in CommitOutcomes : FlushCommit(o)

ProducerNext == \E e \in Ids, b \in Bodies : AddDocument(e, b)

Init == InitIndex /\ InitAdmin /\ InitX

NextIndex == WriterNext \/ ProducerNext \/ ShutdownBroadcast

\* The index manager with its writer task and its producers.
SpecIndex == Init /\ [][NextIndex]_vars

\* The same, with the sync controller stopping the sync of an account.
NextIndexSync == NextIndex \/ \E a \in Accounts : SyncStop(a)

SpecIndexSync == Init /\ [][NextIndexSync]_vars

(***************************************************************************)
(* The operations that commit on the same IndexWriter from request tasks   *)
(***************************************************************************)
CallDeleteQuery(a, e) == [call |-> "delete_query", ops |-> <<OpDeleteQuery(a, e)>>]

\* HashMap<account_id, Vec<envelope_id>>: the empty map, or one account with
\* any set of ids (the Vec is deduplicated by the callee).
EmptyRequest == << >>
AdminRequests ==
    {EmptyRequest} \cup {a :> S : a \in Accounts, S \in SUBSET Ids}

RECURSIVE DeleteQueryCalls(_, _)
DeleteQueryCalls(a, order) ==
    IF order = <<>> THEN <<>>
    ELSE <<CallDeleteQuery(a, Head(order))>> \o DeleteQueryCalls(a, Tail(order))

\* for (account_id, envelope_ids) in deletes { for eid in unique_ids {
\* writer.delete_query(envelope_query(account_id, eid)) } }
MultiAccountCalls(req) ==
    LET a == CHOOSE x \in DOMAIN req : TRUE
    IN  DeleteQueryCalls(a, SeqOfSet(req[a]))

\* searcher.search(envelope_query(account, eid), TopDocs::with_limit(1))
TopDoc(searcher, a, e) ==
    {d \in BagToSet(searcher) : d.account = a /\ d.id = e}

\* update_envelope_tags: for every requested envelope found by the searcher,
\* Delete(term id) and Add(old document with the tags replaced).
RECURSIVE TagOperations(_, _, _, _)
TagOperations(searcher, a, order, tags) ==
    IF order = <<>> THEN <<>>
    ELSE LET e == Head(order)
             found == TopDoc(searcher, a, e)
             rest == TagOperations(searcher, a, Tail(order), tags)
         IN  IF found = {} THEN rest
             ELSE LET old == CHOOSE d \in found : TRUE
                  IN  <<OpDelete(e), OpAdd([old EXCEPT !.tags = tags])>> \o rest

AdminBeginFor(op, script) ==
    /\ Alive
    /\ apc = "idle"
    /\ nAdmin < MaxAdminOps
    /\ nAdmin' = nAdmin + 1
    /\ aop' = op
    /\ ascript' = script
    /\ apc' = "lock"
    /\ UNCHANGED <<ivars, xvars>>

AdminBegin(kind, script) == AdminBeginFor([kind |-> kind], script)

\* delete_account_envelopes(account_id), up to the lock
delete_account_envelopes(a) ==
    AdminBegin("delete_account_envelopes", <<CallDeleteQuery(a, 0), CallCommit>>)

\* delete_envelopes_multi_account / delete_email_multi_account, up to the
\* lock; an empty map returns at once.
delete_envelopes_multi_account(req) ==
    /\ req # EmptyRequest
    /\ AdminBegin("delete_envelopes_multi_account",
                  MultiAccountCalls(req) \o <<CallCommit>>)

\* update_envelope_tags, up to the lock: the searcher is created before the
\* lock is taken and the operations are computed from it.
update_envelope_tags(req, tags) ==
    /\ idx = "envelope"
    /\ req # EmptyRequest
    /\ LET a == CHOOSE x \in DOMAIN req : TRUE
       IN  AdminBeginFor([kind |-> "update_envelope_tags", account_id |-> a,
                          envelope_ids |-> req[a], tags |-> tags],
                         << CallRun(TagOperations(create_searcher, a,
                                                  SeqOfSet(req[a]), tags)),
                            CallCommit >>)

\* delete_* / update_envelope_tags called with an empty map: Ok(()) at once.
AdminEmptyRequest ==
    /\ Alive
    /\ apc = "idle"
    /\ nAdmin < MaxAdminOps
    /\ nAdmin' = nAdmin + 1
    /\ aop' = [kind |-> "empty"]
    /\ UNCHANGED <<apc, ascript, ivars, xvars>>

\* self.index_writer.lock().await
AdminLock ==
    /\ Alive
    /\ apc = "lock"
    /\ lockHolder = "none"
    /\ lockHolder' = "admin"
    /\ apc' = "exec"
    /\ UNCHANGED <<idx, queue, buffer, wpc, wafter, wscript, pending, committed,
                   fc, exitCode, sig, nAdds, lastAdded, flushPre, flushBatch,
                   stopped, ascript, aop, nAdmin, xvars>>

\* The request task returns (Ok or Err): the guard is dropped.
AdminReturn ==
    /\ lockHolder' = "none"
    /\ apc' = "idle"
    /\ ascript' = <<>>

\* writer.delete_query(..) / writer.run(..) succeeded
AdminCall ==
    /\ Alive
    /\ apc = "exec"
    /\ Head(ascript).call \in {"delete_query", "run"}
    /\ pending' = pending \o Head(ascript).ops
    /\ ascript' = Tail(ascript)
    /\ UNCHANGED <<idx, queue, buffer, wpc, wafter, wscript, committed,
                   lockHolder, fc, exitCode, sig, nAdds, lastAdded, flushPre,
                   flushBatch, stopped, apc, aop, nAdmin, xvars>>

\* writer.commit() succeeded: Ok(())
AdminCommitted ==
    /\ Alive
    /\ apc = "exec"
    /\ Head(ascript).call = "commit"
    /\ committed' = ApplyOps(committed, pending)
    /\ pending' = <<>>
    /\ AdminReturn
    /\ UNCHANGED <<idx, queue, buffer, wpc, wafter, wscript, fc, exitCode, sig,
                   nAdds, lastAdded, flushPre, flushBatch, stopped, aop, nAdmin>>

AdminCommit == AdminCommitted /\ UNCHANGED xvars

\* Any of the calls failed: `?` returns the error; what was handed to the
\* IndexWriter before stays pending until the next commit.
AdminCallFails ==
    /\ Alive
    /\ apc = "exec"
    /\ AdminReturn
    /\ UNCHANGED <<idx, queue, buffer, wpc, wafter, wscript, pending, committed,
                   fc, exitCode, sig, nAdds, lastAdded, flushPre, flushBatch,
                   stopped, aop, nAdmin, xvars>>

AdminNext ==
    \/ \E a \in Accounts : delete_account_envelopes(a)
    \/ \E req \in AdminRequests : delete_envelopes_multi_account(req)
    \/ \E req \in AdminRequests, tags \in TagSets : update_envelope_tags(req, tags)
    \/ AdminEmptyRequest
    \/ AdminLock
    \/ AdminCall
    \/ AdminCommit
    \/ AdminCallFails

\* The index manager with request tasks that delete and retag.
NextIndexAdmin == NextIndex \/ AdminNext
SpecIndexAdmin == Init /\ [][NextIndexAdmin]_vars

\* The writer task is scheduled whenever it can take a step (tokio polls a
\* ready task, select! picks among the ready branches at random).
FairSpecIndex == SpecIndex /\ WF_vars(WriterNext)

(***************************************************************************)
(* Properties of the index writer                                          *)
(***************************************************************************)
QueuedIds == {queue[i].eid : i \in 1..Len(queue)}

\* Every accepted document with id e has gone through a completed flush.
Flushed(e) ==
    /\ e \notin QueuedIds
    /\ e \notin DOMAIN buffer
    /\ e \notin DOMAIN flushBatch
    /\ \A i \in 1..Len(pending) : pending[i].id # e

\* C1: once every accepted write of id e has been flushed (same batch or
\* successive batches), the committed index holds exactly one document with
\* id e, and it is the one written last.
C1_IdempotentReindex ==
    \A e \in Ids :
        (lastAdded[e] # 0 /\ Flushed(e)) =>
            /\ CountId(committed, e) = 1
            /\ BagIn(Doc(e, AccountOf(e), lastAdded[e], {}), committed)

\* Two writes of the same id (and of no other id) have been flushed.
C1_Witness ==
    \E e \in Ids :
        /\ nAdds >= 2
        /\ \A x \in Ids \ {e} : lastAdded[x] = 0
        /\ Flushed(e)
        /\ CountId(committed, e) = 1

\* The state of the writer task when the shutdown broadcast reaches it with
\* the channel full: its own send of Shutdown cannot complete.
ShutdownSendBlocked == wpc = "send_shutdown" /\ ~SendCanComplete(queue)

\* C3: after the shutdown signal has been received, the writer task
\* eventually terminates with everything it had buffered or queued ahead of
\* the Shutdown message committed (or the process has exited on a commit
\* failure), whatever the queue held when the signal arrived.
C3_ShutdownDrains ==
    (sig = "received") ~>
        (exitCode # 0 \/ (wpc = "done" /\ buffer = EmptyBuffer /\ pending = <<>>))

\* The buffer has been handed to the index and the flush has completed.
BufferCommitted ==
    buffer = EmptyBuffer /\ pending = <<>> /\ wpc \notin {"lock", "exec"}

\* C5: after a Document message has been handled the buffer is below the
\* batch threshold, and a non-empty buffer is eventually committed (by the
\* threshold, the interval tick or the shutdown flush) unless the process
\* exits on a commit failure.
C5_FlushTriggers ==
    /\ [](wpc = "select" => BufferLen(buffer) < BatchSize)
    /\ (buffer # EmptyBuffer) ~> (exitCode # 0 \/ BufferCommitted)

\* The writer task is blocked in its send of Shutdown with documents in its
\* buffer: no tick is served any more.
C5_Witness == ShutdownSendBlocked /\ buffer # EmptyBuffer

\* The waits of fatal_commit, in milliseconds: 1 s, 2 s, 3 s.
C6_Waits == <<1000, 2000, 3000>>

\* While fatal_commit runs or after it exited the process: at most four
\* attempts, every attempt but the last failed with an I/O error, and the
\* waits so far are 1 s, 2 s, 3 s in this order.
C6_Attempts ==
    fc.status \in {"running", "exit"} =>
        LET n == Len(fc.outcomes) IN
        /\ n <= 4
        /\ \A i \in 1..(n - 1) : fc.outcomes[i] = "io"
        /\ Len(fc.sleeps) <= 3
        /\ fc.sleeps = SubSeq(C6_Waits, 1, Len(fc.sleeps))
        /\ fc.status = "running" => n >= 1 /\ fc.outcomes[n] = "io" /\ Len(fc.sleeps) = n
        /\ fc.status = "exit" =>
               /\ exitCode # 0
               /\ n >= 1
               /\ Len(fc.sleeps) = n - 1
               /\ fc.outcomes[n] = "other" \/ (fc.outcomes[n] = "io" /\ n = 4)

\* One attempt of fatal_commit: it returns normally exactly when the attempt
\* succeeds, exits the process exactly on a non-I/O error or on the fourth
\* I/O failure, and otherwise waits and retries.
C6_Attempt(o) ==
    LET k == IF fc.status = "running" THEN Len(fc.outcomes) ELSE 0
        returns == fc'.status = "idle" /\ exitCode' = 0 /\ pending' = <<>>
        exits == fc'.status = "exit" /\ exitCode' # 0
    IN  /\ returns <=> o = "ok"
        /\ exits <=> (o = "other" \/ (o = "io" /\ k = 3))
        /\ (~returns /\ ~exits) =>
               /\ fc'.status = "running"
               /\ fc'.sleeps = SubSeq(C6_Waits, 1, k + 1)

\* C6: fatal_commit attempts the commit at most four times, retries only
\* after an I/O error, waits 1 s, 2 s, 3 s before the second, third and
\* fourth attempt, returns normally exactly when an attempt succeeds, and
\* exits the process with a non-zero status exactly when an attempt fails
\* with a non-I/O error or the fourth attempt fails with an I/O error.
C6_FatalCommit ==
    /\ []C6_Attempts
    /\ [][\A o \in CommitOutcomes : FlushCommit(o) => C6_Attempt(o)]_vars

\* The fourth attempt failed with an I/O error after waits of 1 s, 2 s, 3 s.
C6_Witness ==
    /\ fc.status = "exit"
    /\ fc.outcomes = <<"io", "io", "io", "io">>
    /\ fc.sleeps = C6_Waits

\* The committed documents of account a.
CommittedOf(B, a) == {d \in BagToSet(B) : d.account = a}

\* C4: once stop(a) has returned, no step adds a document of account a to
\* the committed index, also not one that was in the write queue or in the
\* writer buffer when stop returned.
C4_NoCommitAfterStop ==
    [][\A a \in stopped : CommittedOf(committed', a) \subseteq CommittedOf(committed, a)]_vars

\* stop(a) has returned while a document of account a is still in the write
\* queue or in the writer buffer.
C4_Witness ==
    \E a \in stopped :
        \/ \E i \in 1..Len(queue) :
               queue[i].type = "Document" /\ queue[i].doc.account = a
        \/ \E e \in DOMAIN buffer : buffer[e].account = a

\* C2: a searcher created while a flush is under way shows, for every id of
\* the batch, the documents of before the flush; the step that makes the
\* flush visible makes all of it visible (for every id of the batch exactly
\* the new document), whatever the delete_* and update_envelope_tags tasks
\* did before or do after.
C2_BatchAtomicity ==
    /\ [](wpc = "exec" =>
            \A e \in DOMAIN flushBatch :
                DocsWithId(create_searcher, e) = DocsWithId(flushPre, e))
    /\ [][(wpc = "exec" /\ committed' # committed) =>
            \A e \in DOMAIN flushBatch :
                DocsWithId(committed', e) = SetToBag({flushBatch[e]})]_vars

\* A flush is under way that replaces a committed document, after a request
\* task has left operations pending on the IndexWriter.
C2_Witness ==
    /\ wpc = "exec"
    /\ nAdmin > 0
    /\ Len(pending) > Len(DrainOperations(flushBatch))
    /\ \E e \in DOMAIN flushBatch :
           /\ CountId(committed, e) = 1
           /\ ~BagIn(flushBatch[e], committed)

(***************************************************************************)
(* Part II: permissions and the read API                                   *)
(***************************************************************************)
ROOT == "ROOT"
DATA_READ == "DATA_READ"
DATA_READ_ALL == "DATA_READ_ALL"
DATA_DELETE == "DATA_DELETE"
DATA_DELETE_ALL == "DATA_DELETE_ALL"
DATA_RAW_DOWNLOAD == "DATA_RAW_DOWNLOAD"
DATA_RAW_DOWNLOAD_ALL == "DATA_RAW_DOWNLOAD_ALL"
DATA_EXPORT_BATCH == "DATA_EXPORT_BATCH"
DATA_EXPORT_BATCH_ALL == "DATA_EXPORT_BATCH_ALL"
ACCOUNT_MANAGE == "ACCOUNT_MANAGE"
ACCOUNT_MANAGE_ALL == "ACCOUNT_MANAGE_ALL"
ACCOUNT_READ_DETAILS == "ACCOUNT_READ_DETAILS"
ACCOUNT_CREATE == "ACCOUNT_CREATE"

Permissions ==
    {ROOT, DATA_READ, DATA_READ_ALL, DATA_DELETE, DATA_DELETE_ALL,
     DATA_RAW_DOWNLOAD, DATA_RAW_DOWNLOAD_ALL, DATA_EXPORT_BATCH,
     DATA_EXPORT_BATCH_ALL, ACCOUNT_MANAGE, ACCOUNT_MANAGE_ALL,
     ACCOUNT_READ_DETAILS, ACCOUNT_CREATE}

\* Option<u64>: None
NoAccount == 0

RoleIds == {1, 2}

\* UserRole::find(rid).await.ok().flatten(): the role, if the id names one
RoleFound(rid) == rid \in DOMAIN roles

\* get_all_permissions: the union of the permissions of the global roles
get_all_permissions(u) ==
    UNION {roles[rid] : rid \in {r \in u.global_roles : RoleFound(r)}}

is_admin(u) == ROOT \in get_all_permissions(u)

\* Faulty variant of check_global_logic: ACCOUNT_MANAGE_ALL implies
\* ACCOUNT_MANAGE only.
check_global_logic_manage_only(global, perm) ==
    \/ perm \in global
    \/ CASE perm = DATA_READ -> DATA_READ_ALL \in global
         [] perm = DATA_DELETE -> DATA_DELETE_ALL \in global
         [] perm = DATA_RAW_DOWNLOAD -> DATA_RAW_DOWNLOAD_ALL \in global
         [] perm = DATA_EXPORT_BATCH -> DATA_EXPORT_BATCH_ALL \in global
         [] perm = ACCOUNT_MANAGE -> ACCOUNT_MANAGE_ALL \in global
         [] OTHER -> FALSE

check_global_logic(global, perm) ==
    \/ perm \in global
    \/ CASE perm = DATA_READ -> DATA_READ_ALL \in global
         [] perm = DATA_DELETE -> DATA_DELETE_ALL \in global
         [] perm = DATA_RAW_DOWNLOAD -> DATA_RAW_DOWNLOAD_ALL \in global
         [] perm = DATA_EXPORT_BATCH -> DATA_EXPORT_BATCH_ALL \in global
         [] perm \in {ACCOUNT_MANAGE, ACCOUNT_READ_DETAILS} ->
                ACCOUNT_MANAGE_ALL \in global
         [] OTHER -> FALSE

\* Faulty variant of check_account_logic: ACCOUNT_MANAGE implies every
\* account-scoped permission.
check_account_logic_manage_all(scoped_perms, perm) ==
    perm \in scoped_perms \/ ACCOUNT_MANAGE \in scoped_perms

check_account_logic(scoped_perms, perm) ==
    \/ perm \in scoped_perms
    \/ CASE perm \in {DATA_READ, ACCOUNT_READ_DETAILS} ->
                ACCOUNT_MANAGE \in scoped_perms
         [] OTHER -> FALSE

has_permission(u, account_id, permission) ==
    IF is_admin(u) THEN TRUE
    ELSE LET global_perms == get_all_permissions(u) IN
         IF check_global_logic(global_perms, permission) THEN TRUE
         ELSE IF account_id # NoAccount
                 /\ account_id \in DOMAIN u.account_access_map
                 /\ RoleFound(u.account_access_map[account_id])
              THEN LET role == roles[u.account_access_map[account_id]]
                   IN  permission \in role \/ check_account_logic(role, permission)
              ELSE FALSE

\* The index at rest: no writer activity, the given documents committed.
IndexAtRest(B) ==
    /\ idx = "envelope"
    /\ queue = <<>>
    /\ buffer = EmptyBuffer
    /\ wpc = "select"
    /\ wafter = "select"
    /\ wscript = <<>>
    /\ pending = <<>>
    /\ committed = B
    /\ lockHolder = "none"
    /\ fc = FatalCommitIdle
    /\ exitCode = 0
    /\ sig = "none"
    /\ nAdds = 0
    /\ lastAdded = [e \in Ids |-> 0]
    /\ flushPre = EmptyBag
    /\ flushBatch = EmptyBuffer
    /\ stopped = {}

InitTokensNone ==
    /\ InitP
    /\ now = 0
    /\ tokens = << >>
    /\ userIds = {}
    /\ tokResult = NoResult
    /\ expiredSeen = {}

\* Partial functions from a subset of D to R.
PartialFunctions(D, R) == UNION {[X -> R] : X \in SUBSET D}

\* A role carries no permission or one of them; the union over the global
\* roles gives the combinations.
RolePermissionSets == {{}} \cup {{p} : p \in Permissions}

Users ==
    {[global_roles |-> g, account_access_map |-> m] :
        g \in SUBSET RoleIds, m \in PartialFunctions(Accounts, RoleIds)}

InitAuth ==
    /\ IndexAtRest(EmptyBag)
    /\ InitAdmin
    /\ InitTokensNone
    /\ roles \in PartialFunctions(RoleIds, RolePermissionSets)
    /\ user \in Users
    /\ apiResult = NoResult

\* One request: context.has_permission(account_id, permission).await
HasPermission(account_id, permission) ==
    /\ apiResult = NoResult
    /\ apiResult' = [op |-> "has_permission", account |-> account_id,
                     perm |-> permission,
                     result |-> has_permission(user, account_id, permission)]
    /\ UNCHANGED <<ivars, avars, user, roles, now, tokens, userIds, tokResult, expiredSeen, pvars>>

NextAuth ==
    \E account_id \in {NoAccount} \cup Accounts, permission \in Permissions :
        HasPermission(account_id, permission)

\* Permission checks of a caller against the role table.
SpecAuth == InitAuth /\ [][NextAuth]_vars

\* The user with the access map cut down to the given account.
OnlyAccount(u, a) ==
    [u EXCEPT !.account_access_map =
        [x \in DOMAIN u.account_access_map \cap {a} |-> u.account_access_map[x]]]

\* The three cases in which has_permission(account, p) is to be true.
C7_Granted(u, account, p) ==
    LET global == UNION {roles[r] : r \in u.global_roles \cap DOMAIN roles}
        hasRoot == \E r \in u.global_roles \cap DOMAIN roles : ROOT \in roles[r]
        byGlobal ==
            \/ p \in global
            \/ p = DATA_READ /\ DATA_READ_ALL \in global
            \/ p = DATA_DELETE /\ DATA_DELETE_ALL \in global
            \/ p = DATA_RAW_DOWNLOAD /\ DATA_RAW_DOWNLOAD_ALL \in global
            \/ p = DATA_EXPORT_BATCH /\ DATA_EXPORT_BATCH_ALL \in global
            \/ p \in {ACCOUNT_MANAGE, ACCOUNT_READ_DETAILS} /\ ACCOUNT_MANAGE_ALL \in global
        byAccount ==
            /\ account # NoAccount
            /\ account \in DOMAIN u.account_access_map
            /\ u.account_access_map[account] \in DOMAIN roles
            /\ LET role == roles[u.account_access_map[account]]
               IN  \/ p \in role
                   \/ p \in {DATA_READ, ACCOUNT_READ_DETAILS} /\ ACCOUNT_MANAGE \in role
    IN  hasRoot \/ byGlobal \/ byAccount

\* C7: has_permission(account_id?, p) is true exactly when a global role
\* carries ROOT, or the global permissions contain p or the ALL permission
\* implying it, or the role mapped to the given account contains p or
\* ACCOUNT_MANAGE implying it; the entries of the access map for other
\* accounts do not change the answer, and without an account_id the access
\* map does not change it at all.
C7_HasPermission ==
    apiResult.op = "has_permission" =>
        /\ apiResult.result <=> C7_Granted(user, apiResult.account, apiResult.perm)
        /\ apiResult.result <=>
               has_permission(OnlyAccount(user, apiResult.account),
                              apiResult.account, apiResult.perm)

\* DATA_READ on account 1 is granted by ACCOUNT_MANAGE of the role mapped to
\* account 1 alone, for a user who also has a role on account 2.
C7_Witness ==
    /\ apiResult.op = "has_permission"
    /\ apiResult.result
    /\ apiResult.account = 1
    /\ apiResult.perm = DATA_READ
    /\ DOMAIN user.account_access_map = {1, 2}
    /\ ~has_permission(user, NoAccount, DATA_READ)
    /\ ~has_permission(user, 2, DATA_READ)

(***************************************************************************)
(* search-messages and all-tags                                            *)
(***************************************************************************)
MaxPage == 2        \* pages and page sizes requested: 0..MaxPage
MAX_PAGE_SIZE == 500

FacetSets == {{}, {<<"work">>}, {<<"work", "urgent">>}}

\* The committed indexes a request can meet: per id no document or one, with
\* any of the tag sets.
IndexContents ==
    LET choice == [Ids -> {<<0, {}>>} \cup ({1} \X FacetSets)]
        docs(c) == {Doc(e, AccountOf(e), c[e][1], c[e][2]) :
                        e \in {x \in Ids : c[x][1] # 0}}
    IN  {SetToBag(docs(c)) : c \in choice}

\* The role table of the read API runs: a role with DATA_READ_ALL and an
\* account manager role.
ReadRoles == (1 :> {DATA_READ_ALL}) @@ (2 :> {ACCOUNT_MANAGE})

\* SearchFilter: account_id and tags (None is 0 / the empty list)
SearchFilter(account_id, tags) == [account_id |-> account_id, tags |-> tags]
SearchFilters ==
    {SearchFilter(a, t) : a \in {NoAccount} \cup Accounts,
                          t \in {{}, {<<"work">>}}}

IsPrefix(f, g) == Len(f) <= Len(g) /\ SubSeq(g, 1, Len(f)) = f

\* A facet term matches the documents tagged with the facet or a descendant.
HasFacet(d, f) == \E g \in d.tags : IsPrefix(f, g)

\* filter_query: every given criterion is a Must clause; none gives AllQuery
filter_query(filter, d) ==
    /\ filter.tags # {} => \E f \in filter.tags : HasFacet(d, f)
    /\ filter.account_id # NoAccount => d.account = filter.account_id

\* order_by_fast_field(F_INTERNAL_DATE, Order::Desc); the id stands for the
\* internal date.
RECURSIVE SortDesc(_)
SortDesc(S) ==
    IF S = {} THEN <<>>
    ELSE LET m == CHOOSE x \in S : \A y \in S : y.id <= x.id
         IN  <<m>> \o SortDesc(S \ {m})

DivCeil(a, b) == (a + b - 1) \div b

Min(a, b) == IF a <= b THEN a ELSE b

DataPage(items, total, pages) ==
    [op |-> "search", error |-> "none", items |-> items, total_items |-> total,
     total_pages |-> pages]

\* A failed assert!: the task of the request panics.
Panic ==
    [op |-> "search", error |-> "panic", items |-> <<>>, total_items |-> 0,
     total_pages |-> 0]

\* EnvelopeIndexManager::search
search(filter, page, page_size) ==
    LET hits == {d \in BagToSet(create_searcher) : filter_query(filter, d)}
        total == Cardinality(hits)
        offset == (page - 1) * page_size
        total_pages == DivCeil(total, page_size)
    IN  IF page = 0 \/ page_size = 0 THEN Panic
        ELSE IF total = 0 THEN DataPage(<<>>, 0, 0)
        ELSE IF offset > total THEN DataPage(<<>>, total, total_pages)
        ELSE DataPage(SubSeq(SortDesc(hits), offset + 1,
                             Min(offset + page_size, total)),
                      total, total_pages)

InvalidParameter ==
    [op |-> "search", error |-> "InvalidParameter", items |-> <<>>,
     total_items |-> 0, total_pages |-> 0]

\* search_messages_impl: request.validate()?, then search(.., desc = true)
search_messages_impl(filter, page, page_size) ==
    IF page = 0 \/ page_size = 0 THEN InvalidParameter
    ELSE IF page_size > MAX_PAGE_SIZE THEN InvalidParameter
    ELSE search(filter, page, page_size)

\* Option<HashSet<u64>>: None for a caller with DATA_READ_ALL, else the keys
\* of the access map.
AllAccounts == {NoAccount}
authorized_ids(u) ==
    IF has_permission(u, NoAccount, DATA_READ_ALL) THEN AllAccounts
    ELSE DOMAIN u.account_access_map

\* POST /search-messages: authorized_ids is computed by the handler; the
\* search it calls builds its query from the filter alone.
SearchMessages(filter, page, page_size) ==
    /\ apiResult = NoResult
    /\ apiResult' = [search_messages_impl(filter, page, page_size)
                         EXCEPT !.op = "search_messages"]
                     @@ [filter |-> filter, page |-> page, page_size |-> page_size]
    /\ UNCHANGED <<ivars, avars, user, roles, now, tokens, userIds, tokResult, expiredSeen, pvars>>

\* The facets one level below parent that occur in the searcher.
ChildFacets(searcher, parent) ==
    {SubSeq(g, 1, Len(parent) + 1) :
        g \in {t \in UNION {d.tags : d \in BagToSet(searcher)} :
                  IsPrefix(parent, t) /\ Len(t) > Len(parent)}}

FacetCount(searcher, f) ==
    BagCardinality(LET keep(d) == HasFacet(d, f) IN BagKeep(searcher, keep))

\* collect_facets_recursive: FacetCollector over AllQuery below parent_facet,
\* then the same below every facet found.
RECURSIVE collect_facets_recursive(_, _)
collect_facets_recursive(searcher, parent_facet) ==
    LET found == ChildFacets(searcher, parent_facet)
    IN  {[tag |-> f, count |-> FacetCount(searcher, f)] : f \in found}
        \cup UNION {collect_facets_recursive(searcher, f) : f \in found}

RootFacet == <<>>

\* EnvelopeIndexManager::get_all_tags: self.reader.searcher()
get_all_tags == collect_facets_recursive(committed, RootFacet)

\* GET /all-tags
GetAllTags ==
    /\ apiResult = NoResult
    /\ apiResult' = [op |-> "get_all_tags", tags |-> get_all_tags]
    /\ UNCHANGED <<ivars, avars, user, roles, now, tokens, userIds, tokResult, expiredSeen, pvars>>

InitRead ==
    /\ \E B \in IndexContents : IndexAtRest(B)
    /\ InitAdmin
    /\ InitTokensNone
    /\ roles = ReadRoles
    /\ user \in Users
    /\ apiResult = NoResult

NextRead ==
    \/ \E filter \in SearchFilters, page \in 0..MaxPage,
          page_size \in (0..MaxPage) \cup {MAX_PAGE_SIZE + 1} :
            SearchMessages(filter, page, page_size)
    \/ GetAllTags

\* One request to the read API against an index at rest.
SpecRead == InitRead /\ [][NextRead]_vars

\* The caller lacks DATA_READ_ALL: the handler computes Some(keys).
LacksReadAll == authorized_ids(user) # AllAccounts

\* C8: for a caller who lacks DATA_READ_ALL every envelope returned by
\* search-messages belongs to an account that is a key of the caller's
\* account_access_map, whatever the filter; with an empty access map the
\* result is empty.
C8_SearchRestricted ==
    (apiResult.op = "search_messages" /\ LacksReadAll) =>
        \A i \in 1..Len(apiResult.items) :
            apiResult.items[i].account \in authorized_ids(user)

\* A caller without DATA_READ_ALL whose access map is empty has searched an
\* index that holds documents.
C8_Witness ==
    /\ apiResult.op = "search_messages"
    /\ apiResult.error = "none"
    /\ LacksReadAll
    /\ user.account_access_map = << >>
    /\ committed # EmptyBag

\* The documents of the given accounts.
RestrictedTo(B, accounts) ==
    LET keep(d) == d.account \in accounts IN BagKeep(B, keep)

\* C9: the tags and counts all-tags returns to a caller who lacks
\* DATA_READ_ALL are those of the documents of the accounts in the caller's
\* account_access_map: documents of other accounts do not change the result.
C9_TagsRestricted ==
    (apiResult.op = "get_all_tags" /\ LacksReadAll) =>
        apiResult.tags =
            collect_facets_recursive(
                RestrictedTo(committed, authorized_ids(user)), RootFacet)

\* A caller without DATA_READ_ALL and with access to account 1 only has
\* asked for the tags while account 2 holds a tagged document.
C9_Witness ==
    /\ apiResult.op = "get_all_tags"
    /\ LacksReadAll
    /\ DOMAIN user.account_access_map = {1}
    /\ \E d \in BagToSet(committed) : d.account = 2 /\ d.tags # {}

(***************************************************************************)
(* Part III: access tokens                                                 *)
(***************************************************************************)
MaxTokens == 2      \* tokens generated per behaviour
bichon_webui_token_expiration_hours == 1
MsPerHour == 60 * 60 * 1000

\* SETTINGS.bichon_webui_token_expiration_hours * 60 * 60 * 1000
max_life == bichon_webui_token_expiration_hours * MsPerHour

\* The instants at which something happens: the start, one maximal life
\* later, and the millisecond after one and after two maximal lives.
Instants == {0, max_life, max_life + 1, 2 * max_life + 1}

UserIds == {1, 2}
\* The default admin is the user with the smallest id here.
DEFAULT_ADMIN_USER_ID == CHOOSE u \in UserIds : \A v \in UserIds : u <= v
\* Option<i64>: None
NoExpiry == -1
ExpireIn == {NoExpiry, 1}

\* generate_token!(128): the k-th token generated is the string k; 0 is a
\* string that was never generated.
TokenStrings == 0..MaxTokens

AccessTokenModel(user_id, token_type, created_at, expire_at) ==
    [present |-> TRUE, user_id |-> user_id, token_type |-> token_type,
     created_at |-> created_at, expire_at |-> expire_at, last_access_at |-> 0]

new_webui_token(user_id) == AccessTokenModel(user_id, "WebUI", now, NoExpiry)

new_api_token(user_id, expire_at) == AccessTokenModel(user_id, "Api", now, expire_at)

\* async_find_impl::<AccessTokenModel>(token)
TokenFound(t) == t \in DOMAIN tokens /\ tokens[t].present

InitTokens ==
    /\ now = 0
    /\ userIds = {DEFAULT_ADMIN_USER_ID}
    /\ tokens = <<new_webui_token(DEFAULT_ADMIN_USER_ID)>>
    /\ tokResult = NoResult
    /\ expiredSeen = {}

InitToken ==
    /\ IndexAtRest(EmptyBag)
    /\ InitAdmin
    /\ user = NoUser
    /\ roles = << >>
    /\ apiResult = NoResult
    /\ InitTokens
    /\ InitP

TokenUnchanged == UNCHANGED <<ivars, avars, user, roles, apiResult, pvars>>

\* utc_now!() moves on
AdvanceClock(t) ==
    /\ t > now
    /\ now' = t
    /\ UNCHANGED <<tokens, userIds, tokResult, expiredSeen>>
    /\ TokenUnchanged

\* rw.remove(old) for every present token the predicate selects
RemoveTokens(sel(_)) ==
    [t \in DOMAIN tokens |->
        IF tokens[t].present /\ sel(tokens[t])
        THEN [tokens[t] EXCEPT !.present = FALSE] ELSE tokens[t]]

\* id!(96): an id no user ever had (every user that ever existed has left
\* a token record behind, present or removed)
FreshId(u) == u \notin userIds /\ \A t \in DOMAIN tokens : tokens[t].user_id # u

\* UserModel::create: the user row and its initial WebUI token
UserCreate(u) ==
    /\ FreshId(u)
    /\ Len(tokens) < MaxTokens
    /\ userIds' = userIds \cup {u}
    /\ tokens' = Append(tokens, new_webui_token(u))
    /\ UNCHANGED <<now, tokResult, expiredSeen>>
    /\ TokenUnchanged

\* UserModel::remove, first transaction: the user row
UserRemove(u) ==
    /\ u # DEFAULT_ADMIN_USER_ID
    /\ u \in userIds
    /\ userIds' = userIds \ {u}
    /\ UNCHANGED <<now, tokens, tokResult, expiredSeen>>
    /\ TokenUnchanged

\* UserModel::remove, second transaction: the tokens of the user
UserRemoveTokens(u) ==
    /\ u \notin userIds
    /\ \E t \in DOMAIN tokens : tokens[t].present /\ tokens[t].user_id = u
    /\ LET sel(tok) == tok.user_id = u IN tokens' = RemoveTokens(sel)
    /\ UNCHANGED <<now, userIds, tokResult, expiredSeen>>
    /\ TokenUnchanged

\* get_user_webui_token(user_id): the tokens of the user that
\* .find(|t| t.token_type == TokenType::WebUI) may return (the scan is in
\* the order of the random token strings); None when the set is empty
get_user_webui_token(u) ==
    {t \in DOMAIN tokens : /\ tokens[t].present
                           /\ tokens[t].user_id = u
                           /\ tokens[t].token_type = "WebUI"}

\* The token table after reset_webui_token(user_id): the old WebUI token
\* that was found is removed and a new one inserted in one transaction; a
\* plain insert when none was found.
WebUIResets(u) ==
    IF get_user_webui_token(u) = {}
    THEN {Append(tokens, new_webui_token(u))}
    ELSE {Append([tokens EXCEPT ![old].present = FALSE], new_webui_token(u)) :
             old \in get_user_webui_token(u)}

reset_webui_token(u) ==
    /\ u \in userIds
    /\ Len(tokens) < MaxTokens
    /\ tokens' \in WebUIResets(u)
    /\ UNCHANGED <<now, userIds, tokResult, expiredSeen>>
    /\ TokenUnchanged

\* create_api_token(user_id, request)
create_api_token(u, expire_in) ==
    /\ u \in userIds
    /\ Len(tokens) < MaxTokens
    /\ LET expire_at == IF expire_in = NoExpiry THEN NoExpiry
                        ELSE now + expire_in * MsPerHour
       IN  tokens' = Append(tokens, new_api_token(u, expire_at))
    /\ UNCHANGED <<now, userIds, tokResult, expiredSeen>>
    /\ TokenUnchanged

\* AccessTokenModel::delete(token)
DeleteToken(t) ==
    /\ TokenFound(t)
    /\ tokens' = [tokens EXCEPT ![t].present = FALSE]
    /\ UNCHANGED <<now, userIds, tokResult, expiredSeen>>
    /\ TokenUnchanged

\* Faulty variant of WebUIExpired: a token expires on reaching the age.
WebUIExpiredAtAge(tok, t) == t - tok.created_at >= max_life

\* life > max_life
WebUIExpired(tok, t) == t - tok.created_at > max_life

\* if let Some(expire_at) = token.expire_at { utc_now!() > expire_at }
ApiExpired(tok, t) == tok.expire_at # NoExpiry /\ t > tok.expire_at

Resolved(t, known, rec, result) ==
    [op |-> "resolved", token |-> t, known |-> known, rec |-> rec, at |-> now,
     result |-> result]

\* UserModel::find(token.user_id): Ok(user) or ResourceNotFound
FindUser(user_id) == IF user_id \in userIds THEN "Ok" ELSE "ResourceNotFound"

NoToken == AccessTokenModel(0, "None", 0, NoExpiry)

\* resolve_user_from_token up to the update of last_access_at
ResolveFind(t) ==
    /\ tokResult.op # "resolving"
    /\ UNCHANGED <<now, tokens, userIds>>
    /\ TokenUnchanged
    /\ IF ~TokenFound(t)
       THEN /\ tokResult' = Resolved(t, FALSE, NoToken, "PermissionDenied")
            /\ UNCHANGED expiredSeen
       ELSE LET tok == tokens[t] IN
            IF tok.token_type = "WebUI" /\ WebUIExpired(tok, now)
            THEN /\ tokResult' = Resolved(t, TRUE, tok, "PermissionDenied")
                 /\ expiredSeen' = expiredSeen \cup {t}
            ELSE IF tok.token_type = "Api" /\ ApiExpired(tok, now)
            THEN /\ tokResult' = Resolved(t, TRUE, tok, "PermissionDenied")
                 /\ expiredSeen' = expiredSeen \cup {t}
            ELSE IF tok.token_type = "Api"
            THEN /\ tokResult' = [Resolved(t, TRUE, tok, "pending")
                                     EXCEPT !.op = "resolving"]
                 /\ UNCHANGED expiredSeen
            ELSE /\ tokResult' = Resolved(t, TRUE, tok, FindUser(tok.user_id))
                 /\ UNCHANGED expiredSeen

\* resolve_user_from_token for an accepted API token: update_impl sets
\* last_access_at (ResourceNotFound if the token is gone), then the user is
\* looked up
ResolveUpdate ==
    /\ tokResult.op = "resolving"
    /\ UNCHANGED <<now, userIds, expiredSeen>>
    /\ TokenUnchanged
    /\ LET t == tokResult.token IN
       IF TokenFound(t)
       THEN /\ tokens' = [tokens EXCEPT ![t].last_access_at = now]
            /\ tokResult' = [tokResult EXCEPT !.op = "resolved",
                                !.result = FindUser(tokResult.rec.user_id)]
       ELSE /\ UNCHANGED tokens
            /\ tokResult' = [tokResult EXCEPT !.op = "resolved",
                                !.result = "ResourceNotFound"]

NextToken ==
    \/ \E t \in Instants : AdvanceClock(t)
    \/ \E u \in UserIds : UserCreate(u)
    \/ \E u \in UserIds : UserRemove(u)
    \/ \E u \in UserIds : UserRemoveTokens(u)
    \/ \E u \in UserIds : reset_webui_token(u)
    \/ \E u \in UserIds, expire_in \in ExpireIn : create_api_token(u, expire_in)
    \/ \E t \in TokenStrings : DeleteToken(t)
    \/ \E t \in TokenStrings : ResolveFind(t)
    \/ ResolveUpdate

\* Users, their tokens, the clock and token resolution.
SpecToken == InitToken /\ [][NextToken]_vars

\* The three cases of rejection, for the record found at the instant of the
\* resolution.
C10_Rejected(known, rec, at) ==
    \/ ~known
    \/ rec.token_type = "WebUI"
       /\ at - rec.created_at > bichon_webui_token_expiration_hours * 3600000
    \/ rec.token_type = "Api" /\ rec.expire_at # NoExpiry /\ rec.expire_at < at

\* C10: token resolution answers permission-denied exactly for an unknown
\* token string, a WebUI token older than the configured hours (whatever its
\* expire_at) and an API token whose expire_at lies in the past; an API token
\* without expire_at is never rejected as expired, and a token that was
\* rejected for expiry is not accepted at any later time.
C10_TokenResolution ==
    tokResult.op = "resolved" =>
        /\ tokResult.result = "PermissionDenied" <=>
               C10_Rejected(tokResult.known, tokResult.rec, tokResult.at)
        /\ tokResult.token \in expiredSeen => tokResult.result # "Ok"

\* A WebUI token is resolved at exactly the maximal age and accepted, after
\* another token has been rejected for expiry.
C10_Witness ==
    /\ tokResult.op = "resolved"
    /\ tokResult.result = "Ok"
    /\ tokResult.rec.token_type = "WebUI"
    /\ tokResult.at - tokResult.rec.created_at = max_life
    /\ expiredSeen # {}

(***************************************************************************)
(* Part IV: users (users/mod.rs): authenticate_user, create, update,       *)
(* remove                                                                  *)
(***************************************************************************)
\* Upper bound on the token records (present or removed) of one behaviour.
MaxUserTokens == 4

\* Option<T>: None and Some(x)
None == {}
Some(x) == {x}
Unwrap(o) == CHOOSE x \in o : TRUE

\* Names of 5..32 characters; one of them has the form of an e-mail address.
Usernames == {"admin", "carol", "placeholder@example.com"}
Emails == {"placeholder@example.com", "carol@example.com"}
\* Passwords of 8..256 characters.
Passwords == {"admin@bichon", "carol-password"}

\* encrypt!(plaintext): the sealed text is not the plaintext
encrypt_string(plaintext) == <<"AES_256_GCM", plaintext>>

\* decrypt!(data)
decrypt_string(data) == data[2]

\* vec![DEFAULT_ADMIN_ROLE_ID]: the role with the smallest id here
DEFAULT_ADMIN_ROLE_ID == CHOOSE r \in RoleIds : \A q \in RoleIds : r <= q

\* A row as create and the migrations write it: acl: None
UserModel(username, email, password, global_roles, account_access_map) ==
    [username |-> username, email |-> email, password |-> password,
     global_roles |-> global_roles, account_access_map |-> account_access_map,
     acl |-> None]

\* The row ensure_default_admin_exists inserts.
DefaultAdmin ==
    UserModel("admin", "placeholder@example.com",
              Some(encrypt_string("admin@bichon")), {DEFAULT_ADMIN_ROLE_ID},
              << >>)

\* ensure_default_admin_exists on an empty store: the admin row and its
\* initial WebUI token
ensure_default_admin_exists ==
    /\ userIds = {DEFAULT_ADMIN_USER_ID}
    /\ userRecs = (DEFAULT_ADMIN_USER_ID :> DefaultAdmin)
    /\ tokens = <<new_webui_token(DEFAULT_ADMIN_USER_ID)>>

InitUsers ==
    /\ IndexAtRest(EmptyBag)
    /\ InitAdmin
    /\ user = NoUser
    /\ roles = << >>
    /\ apiResult = NoResult
    /\ now = 0
    /\ tokResult = NoResult
    /\ expiredSeen = {}
    /\ ensure_default_admin_exists
    /\ userResult = NoResult
    /\ InitC
    /\ InitM
    /\ InitR

UsersUnchanged ==
    UNCHANGED <<ivars, avars, user, roles, apiResult, now, tokResult, expiredSeen,
                cvars, mvars, rvars>>

\* secondary_find_impl::<UserModel>(BichonUserV2Key::username, name)
FindByUsername(name) == {u \in userIds : userRecs[u].username = name}

\* secondary_find_impl::<UserModel>(BichonUserV2Key::email, email)
FindByEmail(email) == {u \in userIds : userRecs[u].email = email}

LoginResult(ident, password, success, access_token, error_message) ==
    [op |-> "login", ident |-> ident, password |-> password,
     success |-> success, access_token |-> access_token,
     error_message |-> error_message]

\* authenticate_user(username_or_email, password): the user is looked up by
\* username and, only when no username matches, by email
authenticate_user(ident, password) ==
    /\ UNCHANGED <<userIds, userRecs>>
    /\ UsersUnchanged
    /\ LET user_opt == IF FindByUsername(ident) # {} THEN FindByUsername(ident)
                       ELSE FindByEmail(ident)
       IN  IF user_opt = {}
           THEN /\ userResult' = LoginResult(ident, password, FALSE, 0,
                                             "User or email not found.")
                /\ UNCHANGED tokens
           ELSE \E u \in user_opt :
                IF userRecs[u].password = None
                THEN /\ userResult' = LoginResult(ident, password, FALSE, 0,
                                                  "No password set.")
                     /\ UNCHANGED tokens
                ELSE IF password = decrypt_string(Unwrap(userRecs[u].password))
                THEN /\ Len(tokens) < MaxUserTokens
                     /\ tokens' \in WebUIResets(u)
                     /\ userResult' = LoginResult(ident, password, TRUE,
                                                  Len(tokens'), "")
                ELSE /\ userResult' = LoginResult(ident, password, FALSE, 0,
                                                  "Incorrect password.")
                     /\ UNCHANGED tokens

\* The answer to create, update or remove: the id, whether the request
\* carried global_roles, and Ok or the error code.
UserResult(op, id, with_roles, result) ==
    [op |-> op, id |-> id, with_roles |-> with_roles, result |-> result]

UserCreateRequest(username, email, password, global_roles) ==
    [username |-> username, email |-> email, password |-> password,
     global_roles |-> global_roles]

\* Vec<u64> of role ids: no role or one role
RoleLists == {{}} \cup {{r} : r \in RoleIds}

UserCreateRequests ==
    {UserCreateRequest(n, e, p, Some(g)) :
        n \in Usernames, e \in Emails, p \in Passwords, g \in RoleLists}

\* UserModel::create(request); id is the value id!(96) generates
create(id, request) ==
    /\ FreshId(id)
    /\ UsersUnchanged
    /\ IF Unwrap(request.global_roles) = {}
       THEN /\ userResult' = UserResult("create", id, TRUE, "InvalidParameter")
            /\ UNCHANGED <<userIds, userRecs, tokens>>
       ELSE IF FindByUsername(request.username) # {}
               \/ FindByEmail(request.email) # {}
       THEN /\ userResult' = UserResult("create", id, TRUE, "AlreadyExists")
            /\ UNCHANGED <<userIds, userRecs, tokens>>
       ELSE /\ Len(tokens) < MaxUserTokens
            /\ userIds' = userIds \cup {id}
            /\ userRecs' = userRecs @@
                   (id :> UserModel(request.username, request.email,
                                    Some(encrypt_string(request.password)),
                                    Unwrap(request.global_roles), << >>))
            /\ tokens' = Append(tokens, new_webui_token(id))
            /\ userResult' = UserResult("create", id, TRUE, "Ok")

\* UserModel::remove(id): the default admin is refused; otherwise the row is
\* deleted and then, in a second transaction, the tokens of the user
remove(id) ==
    /\ UsersUnchanged
    /\ IF id = DEFAULT_ADMIN_USER_ID
       THEN /\ userResult' = UserResult("remove", id, FALSE, "PermissionDenied")
            /\ UNCHANGED <<userIds, userRecs, tokens>>
       ELSE IF id \notin userIds
       THEN /\ userResult' = UserResult("remove", id, FALSE, "ResourceNotFound")
            /\ UNCHANGED <<userIds, userRecs, tokens>>
       ELSE /\ userIds' = userIds \ {id}
            /\ userRecs' = [u \in userIds \ {id} |-> userRecs[u]]
            /\ LET sel(tok) == tok.user_id = id IN tokens' = RemoveTokens(sel)
            /\ userResult' = UserResult("remove", id, FALSE, "Ok")

\* A request that leaves account_access_map and acl out.
UserUpdateRequest(username, email, password, global_roles) ==
    [username |-> username, email |-> email, password |-> password,
     global_roles |-> global_roles, account_access_map |-> None, acl |-> None]

Options(S) == {None} \cup {Some(x) : x \in S}

\* Requests that set at most one of username, email and password, with or
\* without global_roles.
UserUpdateRequests ==
    {r \in {UserUpdateRequest(n, e, p, g) :
                n \in Options(Usernames), e \in Options(Emails),
                p \in Options(Passwords), g \in Options(RoleLists)} :
        Cardinality({f \in {"username", "email", "password"} : r[f] # None}) <= 1}

\* Faulty variant of AdminRolesImmutable: no request is refused for the
\* default admin's sake.
AdminRolesUnguarded(id, request) == FALSE

\* The check of update that refuses a change of the default admin's roles.
AdminRolesImmutable(id, request) ==
    DEFAULT_ADMIN_USER_ID = id /\ request.global_roles # None

\* The row update_impl writes
Updated(current, request) ==
    [UserModel(IF request.username # None THEN Unwrap(request.username)
               ELSE current.username,
               IF request.email # None THEN Unwrap(request.email)
               ELSE current.email,
               IF request.password # None
               THEN Some(encrypt_string(Unwrap(request.password)))
               ELSE current.password,
               IF request.global_roles # None THEN Unwrap(request.global_roles)
               ELSE current.global_roles,
               IF request.account_access_map # None
               THEN Unwrap(request.account_access_map)
               ELSE current.account_access_map)
     EXCEPT !.acl = IF request.acl # None THEN request.acl ELSE current.acl]

\* UserModel::update(id, request): the store and the answer
UpdateCall(id, request) ==
    /\ UNCHANGED userIds
    /\ IF request.global_roles = Some({})
       THEN /\ userResult' = UserResult("update", id, request.global_roles # None, "InvalidParameter")
            /\ UNCHANGED <<userRecs, tokens>>
       ELSE IF AdminRolesImmutable(id, request)
       THEN /\ userResult' = UserResult("update", id, request.global_roles # None, "Forbidden")
            /\ UNCHANGED <<userRecs, tokens>>
       ELSE IF \/ /\ request.username # None
                  /\ FindByUsername(Unwrap(request.username)) \ {id} # {}
               \/ /\ request.email # None
                  /\ FindByEmail(Unwrap(request.email)) \ {id} # {}
       THEN /\ userResult' = UserResult("update", id, request.global_roles # None, "AlreadyExists")
            /\ UNCHANGED <<userRecs, tokens>>
       ELSE IF id \notin userIds
       THEN /\ userResult' = UserResult("update", id, request.global_roles # None, "ResourceNotFound")
            /\ UNCHANGED <<userRecs, tokens>>
       ELSE /\ userRecs' = [userRecs EXCEPT ![id] = Updated(@, request)]
            /\ IF request.password # None
               THEN /\ Len(tokens) < MaxUserTokens
                    /\ tokens' \in WebUIResets(id)
               ELSE UNCHANGED tokens
            /\ userResult' = UserResult("update", id, request.global_roles # None, "Ok")

\* UserModel::update(id, request)
update(id, request) == UpdateCall(id, request) /\ UsersUnchanged

NextUsers ==
    \/ \E ident \in Usernames \cup Emails, password \in Passwords :
           authenticate_user(ident, password)
    \/ \E id \in UserIds, request \in UserCreateRequests : create(id, request)
    \/ \E id \in UserIds : remove(id)
    \/ \E id \in UserIds, request \in UserUpdateRequests : update(id, request)

\* The users of the metadata store and their tokens under login, create,
\* update and remove.
SpecUsers == InitUsers /\ [][NextUsers]_vars

\* The users a login with this identifier and password is a correct login of.
C11_Owners(ident, password) ==
    {u \in userIds :
        /\ userRecs[u].username = ident \/ userRecs[u].email = ident
        /\ userRecs[u].password = Some(encrypt_string(password))}

\* C11: a login with the correct password, by username or by email, issues
\* a new WebUI token for that user and removes the user's previous WebUI
\* token, which from then on resolves to no user; a login with a wrong
\* password or for an unknown user answers success = false and leaves the
\* token store unchanged.
C11_Login ==
    [][(userResult' # userResult /\ userResult'.op = "login") =>
          LET r == userResult'
              owners == C11_Owners(r.ident, r.password)
          IN  IF owners # {}
              THEN /\ r.success
                   /\ r.access_token = Len(tokens) + 1
                   /\ Len(tokens') = Len(tokens) + 1
                   /\ tokens'[r.access_token].present
                   /\ tokens'[r.access_token].token_type = "WebUI"
                   /\ tokens'[r.access_token].user_id \in owners
                   /\ \A t \in DOMAIN tokens :
                          /\ tokens[t].token_type = "WebUI"
                          /\ tokens[t].user_id = tokens'[r.access_token].user_id
                          => ~tokens'[t].present
                   /\ \A t \in DOMAIN tokens :
                          ~tokens[t].present => ~tokens'[t].present
              ELSE /\ ~r.success
                   /\ tokens' = tokens]_vars

\* The login by e-mail address with the password of the user who owns the
\* address was answered "Incorrect password.": another user carries the
\* address as username.
C11_Witness ==
    /\ userResult.op = "login"
    /\ ~userResult.success
    /\ \E u \in FindByEmail(userResult.ident) :
           userRecs[u].password = Some(encrypt_string(userResult.password))
    /\ FindByUsername(userResult.ident) # {}

\* A remove of the default admin, or an update of the default admin that
\* carries global_roles, has just been answered.
C12_Refusable(r) ==
    /\ r.op \in {"remove", "update"}
    /\ r.id = DEFAULT_ADMIN_USER_ID
    /\ r.op = "update" => r.with_roles

\* C12: whatever users are created, updated and removed, the default admin
\* exists with the global_roles it was created with; a remove of its id and
\* every update of its id that carries global_roles are rejected and leave
\* the user rows as they were.
C12_DefaultAdmin ==
    /\ [](/\ DEFAULT_ADMIN_USER_ID \in userIds
          /\ userRecs[DEFAULT_ADMIN_USER_ID].global_roles = DefaultAdmin.global_roles
          /\ C12_Refusable(userResult) => userResult.result # "Ok")
    /\ [][(userResult' # userResult /\ C12_Refusable(userResult')) =>
             userIds' = userIds /\ userRecs' = userRecs]_vars

\* An update of the default admin that names its roles was refused, after a
\* second user was created and the default admin was renamed.
C12_Witness ==
    /\ userResult.op = "update"
    /\ userResult.id = DEFAULT_ADMIN_USER_ID
    /\ userResult.with_roles
    /\ userResult.result = "Forbidden"
    /\ Cardinality(userIds) = 2
    /\ userRecs[DEFAULT_ADMIN_USER_ID].username # DefaultAdmin.username

(***************************************************************************)
(* Part V: accounts (account/migration.rs): create_account, delete         *)
(***************************************************************************)
AccountTypes == {"IMAP", "NoSync"}

\* The role of the creating user on a new account: the role that is not
\* the admin role here.
DEFAULT_ACCOUNT_MANAGER_ROLE_ID == CHOOSE r \in RoleIds : r # DEFAULT_ADMIN_ROLE_ID

\* A user other than the default admin, as create leaves it.
SecondUser ==
    UserModel("carol", "carol@example.com",
              Some(encrypt_string("carol-password")),
              {DEFAULT_ACCOUNT_MANAGER_ROLE_ID}, << >>)

InitAccount ==
    /\ IndexAtRest(EmptyBag)
    /\ InitAdmin
    /\ user = NoUser
    /\ roles = << >>
    /\ apiResult = NoResult
    /\ now = 0
    /\ tokResult = NoResult
    /\ expiredSeen = {}
    /\ userIds = UserIds
    /\ userRecs = [u \in UserIds |->
                      IF u = DEFAULT_ADMIN_USER_ID THEN DefaultAdmin ELSE SecondUser]
    /\ tokens = [u \in UserIds |-> new_webui_token(u)]
    /\ userResult = NoResult
    /\ InitC
    /\ InitM
    /\ InitR

AccountUnchanged ==
    UNCHANGED <<ivars, avars, user, roles, apiResult, now, tokens, userIds,
                tokResult, expiredSeen, userResult, mvars,
                rvars>>

AccountIdle == accTask.pc \in {"idle", "returned"}

\* The rows after the writes of the closure create_account passes to
\* with_transaction, and whether the closure returned Ok: the account row is
\* inserted, then the creating user is read and its account_access_map
\* extended.
CreateAccountWrites(user_id, account_id) ==
    [ok |-> user_id \in userIds,
     accountRows |-> accountRows \cup {account_id},
     userRecs |->
        IF user_id \in userIds
        THEN [userRecs EXCEPT ![user_id].account_access_map =
                 [a \in DOMAIN @ \cup {account_id} |->
                     IF a = account_id THEN DEFAULT_ACCOUNT_MANAGER_ROLE_ID
                     ELSE @[a]]]
        ELSE userRecs]

\* Faulty variant of with_transaction: the writes of a closure that fails
\* stay.
without_transaction(written, commit) == written

\* with_transaction(database, f): the writes of f are committed when f and
\* commit return Ok and dropped otherwise
with_transaction(written, commit) ==
    IF written.ok /\ commit THEN written
    ELSE [ok |-> FALSE, accountRows |-> accountRows, userRecs |-> userRecs]

\* create_account(user_id, request) up to the end of the transaction;
\* account_id is the id of the entity create_entity builds
CreateAccountTransaction(user_id, account_type, account_id, commit) ==
    /\ AccountIdle
    /\ account_id \notin DOMAIN inserted
    /\ AccountUnchanged
    /\ UNCHANGED <<cleaned, syncTasks>>
    /\ LET after == with_transaction(CreateAccountWrites(user_id, account_id), commit)
       IN  /\ accountRows' = after.accountRows
           /\ userRecs' = after.userRecs
           /\ inserted' = IF account_id \in after.accountRows
                          THEN inserted @@ (account_id :> account_type)
                          ELSE inserted
           /\ accTask' = [op |-> "create", account |-> account_id,
                          user |-> user_id, account_type |-> account_type,
                          log |-> << >>, failed |-> "",
                          pc |-> IF after.ok THEN "committed" ELSE "returned",
                          result |-> IF after.ok THEN "pending"
                                     ELSE IF user_id \notin userIds
                                     THEN "ResourceNotFound" ELSE "InternalError"]

\* create_account after the transaction: SYNC_CONTROLLER.trigger_start for
\* an IMAP account, then Ok(cloned)
CreateAccountTrigger ==
    /\ accTask.pc = "committed"
    /\ AccountUnchanged
    /\ UNCHANGED <<accountRows, inserted, cleaned, userRecs>>
    /\ syncTasks' = IF accTask.account_type = "IMAP"
                    THEN syncTasks \cup {accTask.account} ELSE syncTasks
    /\ accTask' = [accTask EXCEPT !.pc = "returned", !.result = "Ok"]

\* Faulty variant of cleanup_account_resources_sequential: the account row
\* is deleted before the resources of the account.
cleanup_account_row_first(account_type) ==
    <<"delete_account">> \o
    (IF account_type = "IMAP"
     THEN <<"SYNC_TASKS.stop", "AccountRunningState::delete",
            "MAIL_CONTEXT.clean_account">>
     ELSE << >>) \o
    <<"OAuth2AccessToken::try_delete", "UserModel::cleanup_account",
      "MailBox::clean", "ENVELOPE_INDEX_MANAGER.delete_account_envelopes",
      "EML_INDEX_MANAGER.delete_account_envelopes">>

\* cleanup_account_resources_sequential(account): the calls it makes, each
\* followed by ?
cleanup_account_resources_sequential(account_type) ==
    (IF account_type = "IMAP"
     THEN <<"SYNC_TASKS.stop", "AccountRunningState::delete",
            "MAIL_CONTEXT.clean_account">>
     ELSE << >>) \o
    <<"OAuth2AccessToken::try_delete", "UserModel::cleanup_account",
      "MailBox::clean", "ENVELOPE_INDEX_MANAGER.delete_account_envelopes",
      "EML_INDEX_MANAGER.delete_account_envelopes", "delete_account">>

\* AccountModel::delete(account_id): Self::get(account_id)
DeleteAccountBegin(account_id) ==
    /\ AccountIdle
    /\ AccountUnchanged
    /\ UNCHANGED <<accountRows, inserted, cleaned, syncTasks, userRecs>>
    /\ accTask' =
          IF account_id \in accountRows
          THEN [op |-> "delete", account |-> account_id, user |-> 0,
                account_type |-> inserted[account_id], log |-> << >>,
                failed |-> "",
                pc |-> "cleanup", result |-> "pending"]
          ELSE [op |-> "delete", account |-> account_id, user |-> 0,
                account_type |-> "None", log |-> << >>, failed |-> "",
                pc |-> "returned", result |-> "ResourceNotFound"]

\* UserModel::cleanup_account(account_id): the account is removed from the
\* account_access_map of every user that has it
cleanup_account(account_id) ==
    [u \in DOMAIN userRecs |->
        [userRecs[u] EXCEPT !.account_access_map =
            [a \in DOMAIN @ \ {account_id} |-> @[a]]]]

\* One call of cleanup_account_resources_sequential and its ?: Ok, or Err
\* returned by AccountModel::delete
CleanupStep(ok) ==
    /\ accTask.pc = "cleanup"
    /\ AccountUnchanged
    /\ UNCHANGED inserted
    /\ LET steps == cleanup_account_resources_sequential(accTask.account_type)
           step == steps[Len(accTask.log) + 1]
           a == accTask.account
       IN  IF ok
           THEN /\ cleaned' = cleaned \cup {<<step, a>>}
                /\ syncTasks' = IF step = "SYNC_TASKS.stop"
                                THEN syncTasks \ {a} ELSE syncTasks
                /\ userRecs' = IF step = "UserModel::cleanup_account"
                               THEN cleanup_account(a) ELSE userRecs
                /\ accountRows' = IF step = "delete_account"
                                  THEN accountRows \ {a} ELSE accountRows
                /\ accTask' = [accTask EXCEPT
                                  !.log = Append(@, step),
                                  !.pc = IF Len(accTask.log) + 1 = Len(steps)
                                         THEN "returned" ELSE "cleanup",
                                  !.result = IF Len(accTask.log) + 1 = Len(steps)
                                             THEN "Ok" ELSE "pending"]
           ELSE /\ UNCHANGED <<cleaned, syncTasks, userRecs, accountRows>>
                /\ accTask' = [accTask EXCEPT !.pc = "returned",
                                              !.result = "Err",
                                              !.failed = step]

NextAccount ==
    \/ \E user_id \in UserIds, account_type \in AccountTypes,
          account_id \in Accounts, commit \in BOOLEAN :
           CreateAccountTransaction(user_id, account_type, account_id, commit)
    \/ CreateAccountTrigger
    \/ \E account_id \in Accounts : DeleteAccountBegin(account_id)
    \/ \E ok \in BOOLEAN : CleanupStep(ok)
    \/ \E id \in UserIds : remove(id)

\* Accounts created and deleted by the users of the metadata store.
SpecAccount == InitAccount /\ [][NextAccount]_vars

\* The order of the cleanup: stop sync, delete running state, clear mail
\* context (IMAP accounts only), delete OAuth2 tokens, strip the account from
\* the users' access maps, delete mailboxes, delete envelope documents,
\* delete EML documents, delete the account row.
C13_Order(account_type) ==
    (IF account_type = "IMAP"
     THEN <<"SYNC_TASKS.stop", "AccountRunningState::delete",
            "MAIL_CONTEXT.clean_account">>
     ELSE << >>) \o
    <<"OAuth2AccessToken::try_delete", "UserModel::cleanup_account",
      "MailBox::clean", "ENVELOPE_INDEX_MANAGER.delete_account_envelopes",
      "EML_INDEX_MANAGER.delete_account_envelopes", "delete_account">>

\* The call in progress or returned is a delete of an existing account.
C13_Deleting == accTask.pc # "idle" /\ accTask.op = "delete" /\ accTask.account_type # "None"

\* C13: the steps of an account deletion run in the stated order; when a
\* step fails no later step runs, the error is returned and the account row
\* still exists; the row is gone exactly when the last step has succeeded.
C13_Cleanup ==
    /\ [](C13_Deleting =>
            LET order == C13_Order(accTask.account_type) IN
            /\ IsPrefix(accTask.log, order)
            /\ accTask.result = "Err" =>
                   /\ accTask.pc = "returned"
                   /\ Len(accTask.log) < Len(order)
                   /\ accTask.failed = order[Len(accTask.log) + 1]
                   /\ accTask.account \in accountRows
            /\ accTask.result = "Ok" =>
                   /\ accTask.log = order
                   /\ accTask.account \notin accountRows
            /\ accTask.result = "pending" => accTask.account \in accountRows)
    /\ [](\A a \in DOMAIN inserted :
            LET order == C13_Order(inserted[a]) IN
            /\ \A i \in DOMAIN order :
                   <<order[i], a>> \in cleaned =>
                       \A j \in 1..i : <<order[j], a>> \in cleaned
            /\ a \in accountRows <=> <<"delete_account", a>> \notin cleaned)
    /\ [][accTask.pc # "cleanup" => cleaned' = cleaned]_vars

\* The deletion of an IMAP account failed when it deleted the mailboxes:
\* the five steps before it have run and the account row exists.
C13_Witness ==
    /\ C13_Deleting
    /\ accTask.account_type = "IMAP"
    /\ accTask.result = "Err"
    /\ accTask.failed = "MailBox::clean"
    /\ Len(accTask.log) = 5
    /\ accTask.account \in accountRows

\* The access map m extended by account a with the account-manager role.
C14_Mapped(m, a) ==
    [x \in DOMAIN m \cup {a} |->
        IF x = a THEN DEFAULT_ACCOUNT_MANAGER_ROLE_ID ELSE m[x]]

\* C14: the transaction of create_account persists the account row and the
\* mapping of the new account to the account-manager role in the creating
\* user's account_access_map, or neither of them; a sync task is triggered
\* for an IMAP account only, and only by a create_account whose transaction
\* has committed.
C14_CreateAccount ==
    /\ [][(AccountIdle /\ accTask' # accTask /\ accTask'.op = "create") =>
             LET a == accTask'.account
                 u == accTask'.user
             IN  \/ /\ accTask'.pc = "committed"
                    /\ a \notin accountRows
                    /\ accountRows' = accountRows \cup {a}
                    /\ u \in userIds
                    /\ userRecs' = [userRecs EXCEPT ![u].account_access_map =
                                       C14_Mapped(@, a)]
                 \/ /\ accTask'.pc = "returned"
                    /\ accTask'.result \notin {"Ok", "pending"}
                    /\ accountRows' = accountRows
                    /\ userRecs' = userRecs]_vars
    /\ [][syncTasks' # syncTasks /\ ~(syncTasks' \subseteq syncTasks) =>
             /\ accTask.op = "create"
             /\ accTask.pc = "committed"
             /\ syncTasks' = syncTasks \cup {accTask.account}
             /\ accTask.account \in DOMAIN inserted
             /\ inserted[accTask.account] = "IMAP"]_vars
    /\ [](\A a \in syncTasks : a \in DOMAIN inserted /\ inserted[a] = "IMAP")

\* create_account was refused for a user that no longer exists, after an
\* earlier create_account of that user had committed and returned.
C14_Witness ==
    /\ accTask.pc = "returned"
    /\ accTask.op = "create"
    /\ accTask.result = "ResourceNotFound"
    /\ accTask.user \notin userIds
    /\ accTask.account \notin accountRows
    /\ accountRows # {}
    /\ syncTasks # {}

(***************************************************************************)
(* Part VI: the MBOX file registry (mbox/migration.rs)                     *)
(***************************************************************************)
Paths == {"a.mbox", "b.mbox"}

\* The tasks that call MboxFile::register (imports run as spawned tasks).
Callers == {1, 2}

MboxFile(id, path, account_id) ==
    [id |-> id, path |-> path, account_id |-> account_id]

\* MboxFile::find_by_path(path)
find_by_path(path) == {f \in mboxFiles : f.path = path}

\* id!(64): an id that was not handed out before
NewFileId ==
    CHOOSE i \in 1..(Cardinality(mboxFiles) + Cardinality(Callers) + 1) :
        /\ \A f \in mboxFiles : f.id # i
        /\ \A c \in DOMAIN reg : reg[c].pc = "idle" \/ reg[c].id # i

\* The variables of Parts I to V, where ingestion does not use them.
InitBeforeM ==
    /\ IndexAtRest(EmptyBag)
    /\ InitAdmin
    /\ user = NoUser
    /\ roles = << >>
    /\ apiResult = NoResult
    /\ now = 0
    /\ tokens = << >>
    /\ userIds = {}
    /\ tokResult = NoResult
    /\ expiredSeen = {}
    /\ InitU
    /\ InitC
    /\ InitR

InitMbox ==
    /\ InitBeforeM
    /\ mboxFiles = {}
    /\ reg = [c \in Callers |-> [pc |-> "idle"]]
    /\ envDocs = << >>
    /\ emlDocs = << >>
    /\ nCommitted = 0
    /\ job = [pc |-> "idle"]
    /\ getResult = NoResult
    /\ runningState = << >>

MboxUnchanged ==
    UNCHANGED <<ivars, avars, user, roles, apiResult, now, tokens, userIds,
                tokResult, expiredSeen, uvars, cvars, rvars>>

\* MboxFile::register(path, account_id) up to the answer of find_by_path:
\* Ok(existing), or Self::new(path, account_id) to be saved
RegisterFind(c, path, account_id) ==
    /\ reg[c].pc \in {"idle", "returned"}
    /\ MboxUnchanged
    /\ UNCHANGED <<mboxFiles, envDocs, emlDocs, nCommitted, job, getResult,
                   runningState>>
    /\ reg' = [reg EXCEPT ![c] =
          IF find_by_path(path) # {}
          THEN [pc |-> "returned", path |-> path, account_id |-> account_id,
                id |-> (CHOOSE f \in find_by_path(path) : TRUE).id,
                result |-> "Ok"]
          ELSE [pc |-> "save", path |-> path, account_id |-> account_id,
                id |-> NewFileId, result |-> "pending"]]

\* new_mbox_file.save(): insert_impl refuses a second row with the same
\* path (#[secondary_key(unique)])
SaveOutcome(path) == IF find_by_path(path) # {} THEN "InternalError" ELSE "Ok"

\* MboxFile::register, new_mbox_file.save().await? and Ok(new_mbox_file)
RegisterSave(c) ==
    /\ reg[c].pc = "save"
    /\ MboxUnchanged
    /\ UNCHANGED <<envDocs, emlDocs, nCommitted, job, getResult, runningState>>
    /\ mboxFiles' = IF SaveOutcome(reg[c].path) = "Ok"
                    THEN mboxFiles \cup
                         {MboxFile(reg[c].id, reg[c].path, reg[c].account_id)}
                    ELSE mboxFiles
    /\ reg' = [reg EXCEPT ![c].pc = "returned",
                          ![c].result = SaveOutcome(reg[c].path)]

NextMbox ==
    \/ \E c \in Callers, path \in Paths, account_id \in Accounts :
           RegisterFind(c, path, account_id)
    \/ \E c \in Callers : RegisterSave(c)

\* Tasks registering MBOX files.
SpecMbox == InitMbox /\ [][NextMbox]_vars

\* C17: every register call for a path succeeds and returns the id of the
\* one record of that path, whatever the account id and whether the calls
\* run one after another or concurrently; no path has two records.
C17_Idempotent ==
    /\ \A c \in Callers :
           reg[c].pc = "returned" =>
               /\ reg[c].result = "Ok"
               /\ \E f \in mboxFiles : f.path = reg[c].path /\ f.id = reg[c].id
    /\ \A f, g \in mboxFiles : f.path = g.path => f = g

\* Two register calls for one path ran concurrently: one has returned Ok,
\* the other an error.
C17_Witness ==
    \E c, d \in Callers :
        /\ reg[c].pc = "returned" /\ reg[d].pc = "returned"
        /\ reg[c].path = reg[d].path
        /\ reg[c].result = "Ok"
        /\ reg[d].result = "InternalError"
        /\ Cardinality(find_by_path(reg[c].path)) = 1

(***************************************************************************)
(* Part VI: MBOX import, EML batch import (import/mbox.rs, import/mod.rs), *)
(* the EML index get (indexer/manager.rs)                                  *)
(***************************************************************************)
\* Upper bound on the messages of one MBOX file or one EML batch.
MaxItems == 2
\* Upper bound on the import and fetch calls of one behaviour.
MaxJobs == 1

\* Raw messages as byte strings. The first byte stands for the header: a
\* message that starts with 0 has none that can be parsed.
Emls == {<<1>>, <<1, 2>>, <<2>>, <<0, 1>>}

Folders == {"INBOX", "Archive"}

\* create_hash(account.id, &mail_folder)
create_hash(account_id, mail_folder) == <<account_id, mail_folder>>

\* The envelope of a message that can be parsed; its id is a hash over the
\* account, the mailbox and the message header.
Envelope(eml_bytes, account_id, mailbox_id) ==
    [id |-> <<account_id, mailbox_id, eml_bytes[1]>>, account_id |-> account_id,
     mailbox_id |-> mailbox_id]

\* extract_envelope_from_eml(eml_bytes, account_id, mailbox_id): Ok or Err
Extractable(eml_bytes) == eml_bytes # << >> /\ eml_bytes[1] # 0

\* doc!(...) of the EML index: the fields it names; original is the raw
\* message the document was built for (history, not a field)
EmlDoc(id, account_id, mailbox_id, eml, mbox_id, mbox_offset, mbox_len, original) ==
    [id |-> id, account_id |-> account_id, mailbox_id |-> mailbox_id,
     eml |-> eml, mbox_id |-> mbox_id, mbox_offset |-> mbox_offset,
     mbox_len |-> mbox_len, original |-> original]

\* What one processed message adds to the two queues.
Processed(ok, env, eml) == [ok |-> ok, env |-> env, eml |-> eml]

\* process_mbox_message(eml_bytes, account_id, mailbox_id, mbox_id, offset, len)
process_mbox_message(eml_bytes, account_id, mailbox_id, mbox_id, offset, len) ==
    IF ~Extractable(eml_bytes) THEN Processed(FALSE, << >>, << >>)
    ELSE LET envelope == Envelope(eml_bytes, account_id, mailbox_id) IN
         Processed(TRUE, <<envelope>>,
                   <<EmlDoc(envelope.id, account_id, mailbox_id, None,
                            Some(mbox_id), Some(offset), Some(len), eml_bytes)>>)

\* process_single_eml(eml_bytes, account_id, mailbox_id)
process_single_eml(eml_bytes, account_id, mailbox_id) ==
    IF ~Extractable(eml_bytes) THEN Processed(FALSE, << >>, << >>)
    ELSE LET envelope == Envelope(eml_bytes, account_id, mailbox_id) IN
         Processed(TRUE, <<envelope>>,
                   <<EmlDoc(envelope.id, account_id, mailbox_id, None,
                            Some(0), Some(0), Some(Len(eml_bytes)), eml_bytes)>>)

\* An entry of the MBOX iterator: message.offset() and message.message()
MboxEntry(offset, message) == [offset |-> offset, message |-> message]

\* The length of an entry in the file: its From line and its message.
EntryLen(message) == 1 + (IF message = None THEN 0 ELSE Len(Unwrap(message)))

\* Mbox::from_file(path).iter() for a file with these messages
RECURSIVE MboxIter(_, _)
MboxIter(messages, offset) ==
    IF messages = << >> THEN << >>
    ELSE <<MboxEntry(offset, Head(messages))>> \o
         MboxIter(Tail(messages), offset + EntryLen(Head(messages)))

SeqsUpTo(S, n) == UNION {[1..k -> S] : k \in 0..n}

\* The MBOX files that may be found at a path.
MboxContents == SeqsUpTo(Options(Emls), MaxItems)

\* A base64 text and its decoding; a text that is not base64.
Base64(bytes) == <<"base64", bytes>>
NotBase64 == <<"junk", << >>>>

\* base64_decode_url_safe!(eml_base64.as_bytes()): Ok(bytes) or Err
Base64Decodes(text) == text[1] = "base64"
base64_decode_url_safe(text) == text[2]

\* BatchEmlRequest.emls
EmlBatches == SeqsUpTo({Base64(b) : b \in Emls} \cup {NotBase64}, MaxItems)

\* The accounts of the metadata store: one IMAP account, one NoSync.
AccountTypeOf(account_id) ==
    IF account_id = CHOOSE a \in Accounts : \A b \in Accounts : a <= b
    THEN "IMAP" ELSE "NoSync"

\* The mailboxes MailBox::list_all(account.id) returns for an IMAP account.
MailboxOf(account_id, mail_folder) ==
    IF AccountTypeOf(account_id) = "IMAP" /\ mail_folder # "INBOX"
    THEN None ELSE Some(create_hash(account_id, mail_folder))

JobsDone == IF job.pc = "idle" THEN 0 ELSE job.n

Job(op, pc, account_id, mailbox_id, mbox_id, input, result) ==
    [op |-> op, pc |-> pc, n |-> JobsDone + 1, account_id |-> account_id,
     mailbox_id |-> mailbox_id, mbox_id |-> mbox_id, input |-> input,
     rest |-> input, index |-> 0, success |-> 0, failed_details |-> << >>,
     too_many |-> FALSE, base_env |-> Len(envDocs), base_eml |-> Len(emlDocs),
     base_state |-> Len(runningState), result |-> result]

JobIdle == job.pc \in {"idle", "returned"} /\ JobsDone < MaxJobs

IngestUnchanged ==
    UNCHANGED <<ivars, avars, user, roles, apiResult, now, tokens, userIds,
                tokResult, expiredSeen, uvars, cvars, reg, rvars>>

\* import_mbox_from_path up to the loop: the file is registered, the
\* mailbox found or created, the file opened
ImportMboxBegin(path, account_id, mail_folder, messages, opens) ==
    /\ JobIdle
    /\ IngestUnchanged
    /\ UNCHANGED <<envDocs, emlDocs, nCommitted, getResult, runningState>>
    /\ LET mbox_file == IF find_by_path(path) # {}
                        THEN CHOOSE f \in find_by_path(path) : TRUE
                        ELSE MboxFile(NewFileId, path, account_id)
           mailbox == MailboxOf(account_id, mail_folder)
       IN  /\ mboxFiles' = mboxFiles \cup {mbox_file}
           /\ job' = IF mailbox = None
                     THEN Job("mbox", "returned", account_id, 0, mbox_file.id,
                              << >>, "ResourceNotFound")
                     ELSE IF ~opens
                     THEN Job("mbox", "returned", account_id, Unwrap(mailbox),
                              mbox_file.id, << >>, "IoError")
                     ELSE Job("mbox", "loop", account_id, Unwrap(mailbox),
                              mbox_file.id, MboxIter(messages, 0), "pending")

\* ImportEmls::do_import up to the loop
ImportEmlsBegin(account_id, mail_folder, emls) ==
    /\ JobIdle
    /\ IngestUnchanged
    /\ UNCHANGED <<mboxFiles, envDocs, emlDocs, nCommitted, getResult, runningState>>
    /\ LET mailbox == MailboxOf(account_id, mail_folder)
       IN  job' = IF mailbox = None
                  THEN Job("emls", "returned", account_id, 0, 0, << >>,
                           "ResourceNotFound")
                  ELSE Job("emls", "loop", account_id, Unwrap(mailbox), 0, emls,
                           "pending")

\* Faulty variant of AfterItemError: the first message that fails ends the
\* import with its error.
AbortOnItemError(j) ==
    [j EXCEPT !.rest = << >>, !.pc = "returned", !.result = "Err"]

\* The import after a message that could not be decoded or processed: the
\* failure is logged (and recorded, for an EML batch) and the loop goes on
AfterItemError(j) ==
    [j EXCEPT !.rest = Tail(@), !.index = @ + 1,
              !.failed_details = IF j.op = "emls" THEN Append(@, j.index) ELSE @]

\* The import after a message that was processed
AfterItemOk(j) ==
    [j EXCEPT !.rest = Tail(@), !.index = @ + 1,
              !.success = IF j.op = "emls" THEN @ + 1 ELSE @]

\* One iteration of the loop of import_mbox_from_path or of do_import
ImportNext ==
    /\ job.pc = "loop"
    /\ job.op \in {"mbox", "emls"}
    /\ job.rest # << >>
    /\ IngestUnchanged
    /\ UNCHANGED <<mboxFiles, nCommitted, getResult, runningState>>
    /\ LET item == Head(job.rest)
           skipped == job.op = "mbox" /\ item.message = None
           decoded == IF job.op = "mbox" THEN item.message # None
                      ELSE Base64Decodes(item)
           r == IF ~decoded THEN Processed(FALSE, << >>, << >>)
                ELSE IF job.op = "mbox"
                THEN process_mbox_message(Unwrap(item.message), job.account_id,
                                          job.mailbox_id, job.mbox_id, item.offset,
                                          Len(Unwrap(item.message)))
                ELSE process_single_eml(base64_decode_url_safe(item),
                                        job.account_id, job.mailbox_id)
       IN  /\ envDocs' = envDocs \o r.env
           /\ emlDocs' = emlDocs \o r.eml
           /\ job' = IF skipped THEN [job EXCEPT !.rest = Tail(@), !.index = @ + 1]
                     ELSE IF r.ok THEN AfterItemOk(job)
                     ELSE AfterItemError(job)

\* The end of the loop: Ok(()) or Ok(BatchEmlResult { .. })
ImportReturn ==
    /\ job.pc = "loop"
    /\ job.op \in {"mbox", "emls"}
    /\ job.rest = << >>
    /\ IngestUnchanged
    /\ UNCHANGED <<mboxFiles, envDocs, emlDocs, nCommitted, getResult, runningState>>
    /\ job' = [job EXCEPT !.pc = "returned", !.result = "Ok"]

\* The writer task of the EML index commits what was enqueued.
EmlCommit ==
    /\ nCommitted < Len(emlDocs)
    /\ nCommitted' = Len(emlDocs)
    /\ IngestUnchanged
    /\ UNCHANGED <<mboxFiles, envDocs, emlDocs, job, getResult, runningState>>

\* searcher.search(envelope_query(account_id, eid), TopDocs::with_limit(1)):
\* the committed document of that id and account, the one added last
EmlSearch(account_id, eid) ==
    LET hits == {i \in 1..nCommitted :
                    /\ emlDocs[i].id = eid
                    /\ emlDocs[i].account_id = account_id
                    /\ \A k \in (i + 1)..nCommitted : emlDocs[k].id # eid}
    IN  {emlDocs[i] : i \in hits}

\* EmlIndexManager::get(account_id, eid): Ok(None), Ok(Some(bytes)), or the
\* error for a document without the f_eml field
get(account_id, eid) ==
    LET docs == EmlSearch(account_id, eid) IN
    IF docs = {} THEN [kind |-> "None", bytes |-> << >>]
    ELSE LET doc == CHOOSE d \in docs : TRUE IN
         IF doc.eml = None THEN [kind |-> "InternalError", bytes |-> << >>]
         ELSE [kind |-> "Some", bytes |-> Unwrap(doc.eml)]

\* The ids of the documents that were enqueued.
EmlIds == {emlDocs[i].id : i \in DOMAIN emlDocs}

\* A call of get on the settled index
Get(account_id, eid) ==
    /\ job.pc \in {"idle", "returned"}
    /\ getResult' = [op |-> "get", account_id |-> account_id, eid |-> eid,
                     at |-> nCommitted, result |-> get(account_id, eid)]
    /\ IngestUnchanged
    /\ UNCHANGED <<mboxFiles, envDocs, emlDocs, nCommitted, job, runningState>>

(***************************************************************************)
(* Part VI: IMAP fetch (imap/executor.rs): fetch_new_mail,                 *)
(* uid_batch_retrieve_emails                                               *)
(***************************************************************************)
\* account.sync_batch_size.unwrap_or(DEFAULT_BATCH_SIZE)
sync_batch_size == 1
\* Upper bound on the UIDs uid_search returns.
MaxUids == 6

\* One answer of the UID FETCH stream: whether an envelope can be extracted
\* from it, and its body
Fetch(envelope, body) == [envelope |-> envelope, body |-> body]

Fetches ==
    {Fetch(TRUE, Some(<<1>>)), Fetch(FALSE, Some(<<0>>)), Fetch(TRUE, None)}

\* The messages of the mailbox from start_uid on, by UID.
Mails(n) == SeqsUpTo(Fetches, n)

\* generate_uid_sequence_hashset(uid_vec, batch_size, false): the sorted
\* UIDs in sets of batch_size
RECURSIVE generate_uid_sequence_hashset(_, _)
generate_uid_sequence_hashset(uid_vec, batch_size) ==
    IF Len(uid_vec) <= batch_size
    THEN (IF uid_vec = << >> THEN << >> ELSE <<uid_vec>>)
    ELSE <<SubSeq(uid_vec, 1, batch_size)>> \o
         generate_uid_sequence_hashset(
             SubSeq(uid_vec, batch_size + 1, Len(uid_vec)), batch_size)

\* Faulty variant of too_many: the running state is written from five
\* batches on.
too_many_at_threshold(len) == len >= 5 * sync_batch_size

\* let too_many = len as u32 > 5 * account.sync_batch_size.unwrap_or(..)
too_many(len) == len > 5 * sync_batch_size

\* The writes of AccountRunningState and, as history, the fetch of a batch.
SetInitial(folder, batches) ==
    [kind |-> "set_initial_current_syncing_folder", folder |-> folder, n |-> batches]
SetBatchNumber(folder, k) ==
    [kind |-> "set_current_sync_batch_number", folder |-> folder, n |-> k]
BatchFetched(folder, k) == [kind |-> "uid_fetch", folder |-> folder, n |-> k]

\* fetch_new_mail(account, mailbox, start_uid, before) up to the loop; the
\* mailbox holds mail[uid] at UID uid
FetchBegin(account_id, mail, outcome) ==
    /\ JobIdle
    /\ AccountTypeOf(account_id) = "IMAP"
    /\ IngestUnchanged
    /\ UNCHANGED <<mboxFiles, envDocs, emlDocs, nCommitted, getResult>>
    /\ LET mailbox_id == create_hash(account_id, "INBOX")
           uid_vec == [uid \in 1..Len(mail) |-> [uid |-> uid, fetch |-> mail[uid]]]
           uid_batches == generate_uid_sequence_hashset(uid_vec, sync_batch_size)
           j == Job("fetch", "loop", account_id, mailbox_id, 0, uid_batches, "pending")
       IN  IF outcome = "command fails"
           THEN /\ job' = [j EXCEPT !.pc = "returned", !.result = "ImapCommandFailed",
                                    !.input = << >>, !.rest = << >>]
                /\ UNCHANGED runningState
           ELSE IF Len(mail) = 0
           THEN /\ job' = [j EXCEPT !.pc = "returned", !.result = "Ok"]
                /\ UNCHANGED runningState
           ELSE IF too_many(Len(mail)) /\ outcome = "state write fails"
           THEN /\ job' = [j EXCEPT !.pc = "returned", !.result = "InternalError",
                                    !.too_many = TRUE]
                /\ UNCHANGED runningState
           ELSE /\ job' = [j EXCEPT !.too_many = too_many(Len(mail))]
                /\ runningState' =
                      IF too_many(Len(mail))
                      THEN Append(runningState, SetInitial("INBOX", Len(uid_batches)))
                      ELSE runningState

\* uid_batch_retrieve_emails(account_id, mailbox_id, uid_set, name): the
\* documents enqueued while the stream is read, and Ok or the error that
\* ends the call
RECURSIVE uid_batch_retrieve_emails(_, _, _)
uid_batch_retrieve_emails(batch, account_id, mailbox_id) ==
    IF batch = << >> THEN Processed(TRUE, << >>, << >>)
    ELSE LET fetch == Head(batch).fetch
             id == <<account_id, mailbox_id, Head(batch).uid>>
             envelope == [id |-> id, account_id |-> account_id,
                          mailbox_id |-> mailbox_id]
         IN  IF ~fetch.envelope THEN Processed(FALSE, << >>, << >>)
             ELSE IF fetch.body = None THEN Processed(FALSE, <<envelope>>, << >>)
             ELSE LET later == uid_batch_retrieve_emails(Tail(batch), account_id,
                                                         mailbox_id)
                  IN  Processed(later.ok, <<envelope>> \o later.env,
                                <<EmlDoc(id, account_id, mailbox_id, fetch.body,
                                         None, None, None, Unwrap(fetch.body))>>
                                \o later.eml)

\* One iteration of the loop of fetch_new_mail
FetchBatch(outcome) ==
    /\ job.pc = "loop"
    /\ job.op = "fetch"
    /\ job.rest # << >>
    /\ IngestUnchanged
    /\ UNCHANGED <<mboxFiles, nCommitted, getResult>>
    /\ LET k == job.index + 1
           r == uid_batch_retrieve_emails(Head(job.rest), job.account_id,
                                          job.mailbox_id)
           set == IF job.too_many THEN <<SetBatchNumber("INBOX", k)>> ELSE << >>
       IN  IF job.too_many /\ outcome = "state write fails"
           THEN /\ job' = [job EXCEPT !.pc = "returned", !.result = "InternalError"]
                /\ UNCHANGED <<runningState, envDocs, emlDocs>>
           ELSE IF outcome = "command fails"
           THEN /\ job' = [job EXCEPT !.pc = "returned",
                                      !.result = "ImapCommandFailed"]
                /\ runningState' = runningState \o set
                /\ UNCHANGED <<envDocs, emlDocs>>
           ELSE /\ runningState' = runningState \o set \o <<BatchFetched("INBOX", k)>>
                /\ envDocs' = envDocs \o r.env
                /\ emlDocs' = emlDocs \o r.eml
                /\ job' = IF r.ok
                          THEN [job EXCEPT !.rest = Tail(@), !.index = k]
                          ELSE [job EXCEPT !.pc = "returned", !.index = k,
                                           !.result = "Err"]

\* The end of the loop of fetch_new_mail: Ok(())
FetchReturn ==
    /\ job.pc = "loop"
    /\ job.op = "fetch"
    /\ job.rest = << >>
    /\ IngestUnchanged
    /\ UNCHANGED <<mboxFiles, envDocs, emlDocs, nCommitted, getResult, runningState>>
    /\ job' = [job EXCEPT !.pc = "returned", !.result = "Ok"]

FetchOutcomes == {"ok", "state write fails", "command fails"}

InitIngest ==
    /\ InitBeforeM
    /\ InitM

NextIngest ==
    \/ \E path \in Paths, account_id \in Accounts, mail_folder \in Folders,
          messages \in MboxContents, opens \in BOOLEAN :
           ImportMboxBegin(path, account_id, mail_folder, messages, opens)
    \/ \E account_id \in Accounts, mail_folder \in Folders, emls \in EmlBatches :
           ImportEmlsBegin(account_id, mail_folder, emls)
    \/ ImportNext
    \/ ImportReturn
    \/ \E account_id \in Accounts, mail \in Mails(MaxItems),
          outcome \in FetchOutcomes : FetchBegin(account_id, mail, outcome)
    \/ \E outcome \in FetchOutcomes : FetchBatch(outcome)
    \/ FetchReturn
    \/ EmlCommit
    \/ \E account_id \in Accounts, eid \in EmlIds : Get(account_id, eid)

\* The three ingestion paths, the commit of the EML index and its get.
SpecIngest == InitIngest /\ [][NextIngest]_vars

NextFetch ==
    \/ \E account_id \in Accounts, mail \in Mails(MaxUids),
          outcome \in FetchOutcomes :
           JobsDone = 0 /\ FetchBegin(account_id, mail, outcome)
    \/ \E outcome \in FetchOutcomes : FetchBatch(outcome)
    \/ FetchReturn

\* One fetch_new_mail call on a mailbox of up to MaxUids messages.
SpecFetch == InitIngest /\ [][NextFetch]_vars

\* The document carries the raw message bytes.
C15_HasRaw(d) == d.eml # None

\* The document carries a triple of an MBOX file id other than 0, an offset
\* and a length.
C15_HasTriple(d) ==
    /\ d.mbox_id # None /\ d.mbox_offset # None /\ d.mbox_len # None
    /\ Unwrap(d.mbox_id) # 0

\* C15: every locator document enqueued by the IMAP fetch, the MBOX import
\* or the EML batch import carries the raw bytes or the triple of a
\* registered MBOX file, and never both or neither.
C15_OneSource ==
    \A i \in DOMAIN emlDocs :
        C15_HasRaw(emlDocs[i]) # C15_HasTriple(emlDocs[i])

\* An EML batch import has returned Ok after it enqueued a locator document
\* that carries neither the bytes nor the triple of an MBOX file.
C15_Witness ==
    /\ job.pc = "returned"
    /\ job.op = "emls"
    /\ job.result = "Ok"
    /\ \E i \in DOMAIN emlDocs :
           ~C15_HasRaw(emlDocs[i]) /\ ~C15_HasTriple(emlDocs[i])

\* The committed documents get was asked for, at the time of the call.
C16_Ingested ==
    {i \in 1..getResult.at :
        /\ emlDocs[i].id = getResult.eid
        /\ emlDocs[i].account_id = getResult.account_id
        /\ \A k \in (i + 1)..getResult.at : emlDocs[k].id # getResult.eid}

\* C16: for a message that was ingested by any path and committed,
\* get(account, id) returns exactly the raw bytes of the message.
C16_GetOriginal ==
    getResult.op = "get" =>
        \A i \in C16_Ingested :
            /\ getResult.result.kind = "Some"
            /\ getResult.result.bytes = emlDocs[i].original

\* get was called for a committed message of an MBOX import and returned an
\* error.
C16_Witness ==
    /\ getResult.op = "get"
    /\ getResult.result.kind = "InternalError"
    /\ \E i \in C16_Ingested : C15_HasTriple(emlDocs[i])

\* The message of an import can be decoded and its envelope extracted.
C18_Extracted(op, item) ==
    IF op = "mbox"
    THEN item.message # None /\ Unwrap(item.message)[1] # 0
    ELSE item[1] = "base64" /\ item[2][1] # 0

\* The raw bytes of a message of an import.
C18_Bytes(op, item) == IF op = "mbox" THEN Unwrap(item.message) ELSE item[2]

\* The raw messages, in order, an import has to enqueue documents for.
RECURSIVE C18_Expected(_, _)
C18_Expected(op, items) ==
    IF items = << >> THEN << >>
    ELSE (IF C18_Extracted(op, Head(items))
          THEN <<C18_Bytes(op, Head(items))>> ELSE << >>)
         \o C18_Expected(op, Tail(items))

\* The import has entered its loop and returned.
C18_Imported ==
    /\ job.pc = "returned"
    /\ job.op \in {"mbox", "emls"}
    /\ job.result \notin {"ResourceNotFound", "IoError"}

C19_Drained ==
    /\ job.pc = "returned"
    /\ job.op = "fetch"
    /\ job.result \in {"Ok", "Err"}
    /\ \A b \in DOMAIN job.input : \A i \in DOMAIN job.input[b] :
           job.input[b][i].fetch.body # None

\* The locator document of the message with that UID was enqueued by the
\* call.
C19_Enqueued(uid) ==
    \E k \in (job.base_eml + 1)..Len(emlDocs) :
        emlDocs[k].id = <<job.account_id, job.mailbox_id, uid>>

\* C19: in an IMAP drain a message whose envelope extraction fails is
\* skipped: every other message of its batch and of the later batches of the
\* fetch_new_mail call is still enqueued.
C19_SkipFailures ==
    C19_Drained =>
        \A b \in DOMAIN job.input : \A i \in DOMAIN job.input[b] :
            job.input[b][i].fetch.envelope => C19_Enqueued(job.input[b][i].uid)

\* fetch_new_mail has returned an error after a message whose envelope
\* could not be extracted, and a later message with an envelope was never
\* enqueued.
C19_Witness ==
    /\ C19_Drained
    /\ job.result = "Err"
    /\ \E b, c \in DOMAIN job.input :
           /\ b < c
           /\ ~job.input[b][1].fetch.envelope
           /\ job.input[c][1].fetch.envelope
           /\ ~C19_Enqueued(job.input[c][1].uid)

\* The number of UIDs in the batches.
RECURSIVE C20_Count(_)
C20_Count(batches) ==
    IF batches = << >> THEN 0
    ELSE Len(Head(batches)) + C20_Count(Tail(batches))

\* What the call has written to the running state, with the fetches of
\* batches in between.
C20_Written == SubSeq(runningState, job.base_state + 1, Len(runningState))

\* The folder and batch count first, then the batch number k before the
\* fetch of batch k, for k = 1..n.
C20_Progress(n) ==
    [i \in 1..(1 + 2 * n) |->
        IF i = 1 THEN SetInitial("INBOX", n)
        ELSE IF i % 2 = 0 THEN SetBatchNumber("INBOX", i \div 2)
        ELSE BatchFetched("INBOX", (i - 1) \div 2)]

\* C20: when fetch_new_mail discovers more than 5 * batch_size UIDs, the
\* running state first records the folder and the batch count N, then the
\* batch number k right before batch k is fetched, for k = 1, 2, ..., N in
\* increasing order; when it discovers at most 5 * batch_size UIDs the call
\* does not write the running state.
C20_BatchProgress ==
    (job.pc # "idle" /\ job.op = "fetch") =>
        IF C20_Count(job.input) > 5 * sync_batch_size
        THEN LET full == C20_Progress(Len(job.input))
             IN  /\ Len(C20_Written) <= Len(full)
                 /\ C20_Written = SubSeq(full, 1, Len(C20_Written))
                 /\ job.pc = "loop" => Len(C20_Written) = 1 + 2 * job.index
                 /\ job.result = "Ok" => C20_Written = full
        ELSE \A i \in DOMAIN C20_Written : C20_Written[i].kind = "uid_fetch"

\* A call that discovered more than 5 * batch_size UIDs has returned Ok
\* after it wrote the batch count and every batch number.
C20_Witness ==
    /\ job.pc = "returned"
    /\ job.op = "fetch"
    /\ job.result = "Ok"
    /\ C20_Count(job.input) > 5 * sync_batch_size
    /\ Len(C20_Written) = 1 + 2 * Len(job.input)
    /\ C20_Written[Len(C20_Written) - 1] = SetBatchNumber("INBOX", Len(job.input))

(***************************************************************************)
(* Part VII: requests of the message API                                   *)
(***************************************************************************)
ReadUnchanged ==
    UNCHANGED <<ivars, avars, user, roles, now, tokens, userIds, tokResult,
                expiredSeen, pvars>>

\* The mailbox an envelope id is derived from; mailbox ids are 1..MaxId.
MailboxIdOf(e) == e

\* mailbox_query(account_id, mailbox_id)
mailbox_query(account_id, mailbox_id, d) ==
    d.account = account_id /\ MailboxIdOf(d.id) = mailbox_id

\* EnvelopeIndexManager::list_mailbox_envelopes
list_mailbox_envelopes(account_id, mailbox_id, page, page_size) ==
    LET hits == {d \in BagToSet(create_searcher) :
                    mailbox_query(account_id, mailbox_id, d)}
        total == Cardinality(hits)
        offset == (page - 1) * page_size
        total_pages == DivCeil(total, page_size)
    IN  IF page = 0 \/ page_size = 0 THEN Panic
        ELSE IF total = 0 THEN DataPage(<<>>, 0, 0)
        ELSE IF offset > total THEN DataPage(<<>>, total, total_pages)
        ELSE DataPage(SubSeq(SortDesc(hits), offset + 1,
                             Min(offset + page_size, total)),
                      total, total_pages)

\* list_messages_impl(account_id, mailbox_id, page, page_size): the call of
\* list_mailbox_envelopes, newest first
list_messages_impl(account_id, mailbox_id, page, page_size) ==
    list_mailbox_envelopes(account_id, mailbox_id, page, page_size)

Forbidden ==
    [op |-> "search", error |-> "Forbidden", items |-> <<>>, total_items |-> 0,
     total_pages |-> 0]

\* GET /list-messages/:account_id
ListMessages(account_id, mailbox_id, page, page_size) ==
    /\ apiResult = NoResult
    /\ apiResult' =
          [(IF has_permission(user, account_id, DATA_READ)
            THEN list_messages_impl(account_id, mailbox_id, page, page_size)
            ELSE Forbidden) EXCEPT !.op = "list_messages"]
          @@ [account_id |-> account_id, mailbox_id |-> mailbox_id,
              page |-> page, page_size |-> page_size]
    /\ ReadUnchanged

NextPage ==
    \/ \E filter \in SearchFilters, page \in 0..MaxPage,
          page_size \in (0..MaxPage) \cup {MAX_PAGE_SIZE + 1} :
            SearchMessages(filter, page, page_size)
    \/ \E account_id \in Accounts, mailbox_id \in Ids, page \in 0..MaxPage,
          page_size \in 0..MaxPage :
            ListMessages(account_id, mailbox_id, page, page_size)

\* One paginated read against an index at rest.
SpecPage == InitRead /\ [][NextPage]_vars

\* The number of committed documents the request matches.
C21_Total ==
    Cardinality({d \in BagToSet(committed) :
        IF apiResult.op = "list_messages"
        THEN mailbox_query(apiResult.account_id, apiResult.mailbox_id, d)
        ELSE filter_query(apiResult.filter, d)})

\* C21: a paginated read of the envelope index answers page = 0 or
\* page_size = 0 with an invalid-parameter error, and a page that starts at
\* or past the total with no items, total_items = total and
\* total_pages = ceil(total / page_size).
C21_Pagination ==
    (apiResult.op \in {"search_messages", "list_messages"}
     /\ apiResult.error # "Forbidden") =>
        /\ (apiResult.page = 0 \/ apiResult.page_size = 0) =>
               apiResult.error = "InvalidParameter"
        /\ (/\ apiResult.page >= 1
            /\ apiResult.page_size \in 1..MAX_PAGE_SIZE
            /\ (apiResult.page - 1) * apiResult.page_size >= C21_Total) =>
               /\ apiResult.error = "none"
               /\ apiResult.items = << >>
               /\ apiResult.total_items = C21_Total
               /\ apiResult.total_pages = DivCeil(C21_Total, apiResult.page_size)

\* A caller with DATA_READ on the account has listed a mailbox with page 0
\* and the request ended in a panic.
C21_Witness ==
    /\ apiResult.op = "list_messages"
    /\ apiResult.page = 0
    /\ apiResult.page_size >= 1
    /\ apiResult.error = "panic"

(***************************************************************************)
(* delete-messages                                                         *)
(***************************************************************************)
\* The variables of Parts I to VI, where a request of Part VII does not use
\* them; the caller and the role table are set by the part.
InitBeforeR ==
    /\ IndexAtRest(EmptyBag)
    /\ InitAdmin
    /\ apiResult = NoResult
    /\ now = 0
    /\ tokens = << >>
    /\ userIds = {}
    /\ tokResult = NoResult
    /\ expiredSeen = {}
    /\ InitU
    /\ InitC
    /\ InitM

\* The role table of the delete runs: a role with DATA_DELETE_ALL and a role
\* with DATA_DELETE.
DeleteRoles == (1 :> {DATA_DELETE_ALL}) @@ (2 :> {DATA_DELETE})

\* The documents an index can hold: per id no document or one.
StoredDocs == {Doc(e, AccountOf(e), 1, {}) : e \in Ids}

\* HashMap<u64, Vec<u64>>: any accounts, each with any ids
DeleteRequests == PartialFunctions(Accounts, SUBSET Ids)

\* One delete_query(envelope_query(account_id, eid)) per key and unique id
DeleteQueries(deletes) ==
    UNION {{OpDeleteQuery(a, e) : e \in deletes[a]} : a \in DOMAIN deletes}

\* What a commit leaves of the documents when the operations are applied.
Surviving(docs, ops) ==
    {d \in docs : \A o \in ops : ~Matches(o, d)}

\* delete_envelopes_multi_account / delete_email_multi_account on one index:
\* the index after the call
delete_multi_account(index, deletes, outcome) ==
    IF deletes = << >> THEN index
    ELSE IF outcome = "delete_query fails" /\ DeleteQueries(deletes) # {}
    THEN index
    ELSE IF outcome = "commit fails"
    THEN [index EXCEPT !.pending = @ \cup DeleteQueries(deletes)]
    ELSE [committed |-> Surviving(index.committed,
                                  index.pending \cup DeleteQueries(deletes)),
          pending |-> {}]

\* Whether the call returns Ok(())
delete_multi_account_ok(deletes, outcome) ==
    \/ deletes = << >>
    \/ outcome = "ok"
    \/ outcome = "delete_query fails" /\ DeleteQueries(deletes) = {}

DeleteOutcomes == {"ok", "delete_query fails", "commit fails"}

\* Faulty variant of RequireDeleteOnKeys: one permitted key is enough.
RequireDeleteOnSomeKey(request) ==
    \/ request = << >>
    \/ \E account_id \in DOMAIN request :
           has_permission(user, account_id, DATA_DELETE)

\* for account_id in request.keys() { context.require_permission(
\* Some(*account_id), Permission::DATA_DELETE).await?; }
RequireDeleteOnKeys(request) ==
    \A account_id \in DOMAIN request :
        has_permission(user, account_id, DATA_DELETE)

DelUnchanged ==
    UNCHANGED <<ivars, avars, user, roles, apiResult, now, tokens, userIds,
                tokResult, expiredSeen, uvars, cvars, mvars>>

DelTask(pc, request, result) ==
    [pc |-> pc, request |-> request, result |-> result,
     envelopes |-> envelopeIndex.committed, emails |-> emlIndex.committed]

\* POST /delete-messages up to the call of delete_messages_impl
DeleteMessagesBegin(request) ==
    /\ delTask.pc = "idle"
    /\ delTask' = IF RequireDeleteOnKeys(request)
                  THEN DelTask("envelope", request, "pending")
                  ELSE DelTask("returned", request, "Forbidden")
    /\ UNCHANGED <<envelopeIndex, emlIndex, limiters, guardLog, mboxTest, zvars>>
    /\ DelUnchanged

\* delete_messages_impl: ENVELOPE_INDEX_MANAGER.delete_envelopes_multi_account
DeleteEnvelopes(outcome) ==
    /\ delTask.pc = "envelope"
    /\ envelopeIndex' = delete_multi_account(envelopeIndex, delTask.request, outcome)
    /\ delTask' = IF delete_multi_account_ok(delTask.request, outcome)
                  THEN [delTask EXCEPT !.pc = "eml"]
                  ELSE [delTask EXCEPT !.pc = "returned", !.result = "InternalError"]
    /\ UNCHANGED <<emlIndex, limiters, guardLog, mboxTest, zvars>>
    /\ DelUnchanged

\* delete_messages_impl: EML_INDEX_MANAGER.delete_email_multi_account, Ok(())
DeleteEmails(outcome) ==
    /\ delTask.pc = "eml"
    /\ emlIndex' = delete_multi_account(emlIndex, delTask.request, outcome)
    /\ delTask' = [delTask EXCEPT
                      !.pc = "returned",
                      !.result = IF delete_multi_account_ok(delTask.request, outcome)
                                 THEN "Ok" ELSE "InternalError"]
    /\ UNCHANGED <<envelopeIndex, limiters, guardLog, mboxTest, zvars>>
    /\ DelUnchanged

InitDelete ==
    /\ InitBeforeR
    /\ roles = DeleteRoles
    /\ user \in Users
    /\ \E docs \in SUBSET StoredDocs :
           /\ envelopeIndex = [committed |-> docs, pending |-> {}]
           /\ emlIndex = [committed |-> docs, pending |-> {}]
    /\ delTask = [pc |-> "idle"]
    /\ limiters = << >>
    /\ guardLog = << >>
    /\ mboxTest = [pc |-> "idle"]
    /\ InitZ

NextDelete ==
    \/ \E request \in DeleteRequests : DeleteMessagesBegin(request)
    \/ \E outcome \in DeleteOutcomes : DeleteEnvelopes(outcome)
    \/ \E outcome \in DeleteOutcomes : DeleteEmails(outcome)

\* One delete-messages request against the two indexes.
SpecDelete == InitDelete /\ [][NextDelete]_vars

\* The documents of the set that the request lists under their own account.
C22_Listed(docs) ==
    {d \in docs : /\ d.account \in DOMAIN delTask.request
                  /\ d.id \in delTask.request[d.account]}

\* C22: delete-messages checks DATA_DELETE on every account key before it
\* deletes anything: a caller who lacks it on one key deletes nothing in
\* either index. A request that proceeds deletes the committed documents
\* whose (account_id, id) pair is listed and no other document, in
\* particular none of an account the id is not listed under.
C22_DeleteMessages ==
    delTask.pc # "idle" =>
        /\ ~(\A a \in DOMAIN delTask.request :
                 has_permission(user, a, DATA_DELETE)) =>
               /\ delTask.result = "Forbidden"
               /\ envelopeIndex = [committed |-> delTask.envelopes, pending |-> {}]
               /\ emlIndex = [committed |-> delTask.emails, pending |-> {}]
        /\ delTask.envelopes \ C22_Listed(delTask.envelopes)
               \subseteq envelopeIndex.committed
        /\ delTask.emails \ C22_Listed(delTask.emails) \subseteq emlIndex.committed
        /\ envelopeIndex.committed \subseteq delTask.envelopes
        /\ emlIndex.committed \subseteq delTask.emails
        /\ delTask.result = "Ok" =>
               /\ envelopeIndex.committed =
                      delTask.envelopes \ C22_Listed(delTask.envelopes)
               /\ emlIndex.committed = delTask.emails \ C22_Listed(delTask.emails)

\* A request with two account keys has returned Ok: it listed an id of
\* account 2 under account 1 and under account 2 nothing that exists; the
\* document of account 2 is still in both indexes and one of account 1 is
\* gone.
C22_Witness ==
    /\ delTask.pc = "returned"
    /\ delTask.result = "Ok"
    /\ DOMAIN delTask.request = {1, 2}
    /\ MaxId \in delTask.request[1]
    /\ MaxId \notin delTask.request[2]
    /\ \E d \in envelopeIndex.committed : d.account = 2
    /\ \E d \in delTask.envelopes \ envelopeIndex.committed : d.account = 1

(***************************************************************************)
(* Properties of the middleware                                            *)
(***************************************************************************)
\* The token resolved is an API token that was found, had not expired and
\* belongs to a user of the store.
C26_ValidApiCall ==
    /\ tokResult.op = "resolved"
    /\ tokResult.known
    /\ tokResult.rec.token_type = "Api"
    /\ ~ApiExpired(tokResult.rec, tokResult.at)
    /\ tokResult.rec.user_id \in userIds

\* C26: last_access_at of an API token is updated on every accepted call,
\* and a failure of the update, as when the token is deleted meanwhile, does
\* not reject a request that is valid otherwise.
C26_BestEffort ==
    C26_ValidApiCall =>
        /\ tokResult.result = "Ok"
        /\ tokens[tokResult.token].last_access_at >= tokResult.at

\* An API token without expiry of an existing user was deleted between the
\* lookup and the update of last_access_at, and the call was rejected.
C26_Witness ==
    /\ C26_ValidApiCall
    /\ tokResult.rec.expire_at = NoExpiry
    /\ ~tokens[tokResult.token].present
    /\ tokResult.result = "ResourceNotFound"

(***************************************************************************)
(* The authorization and rate-limit middleware                             *)
(***************************************************************************)
MaxRequests == 3    \* requests per behaviour
MsPerSecond == MsPerHour \div 3600

\* AccessControl of a user: ip_whitelist and rate_limit, each optional
AccessControl(ip_whitelist, rate_limit) ==
    [ip_whitelist |-> ip_whitelist, rate_limit |-> rate_limit]

\* RateLimit { quota, interval }: interval in seconds
RateLimit(quota, interval) == [quota |-> quota, interval |-> interval]

ClientIps == {"10.0.0.1", "10.0.0.2"}

\* The users of the middleware runs: user 1 with an allow-list and a rate
\* limit of 2 requests per 2 seconds, user 2 with a rate limit of 1 request
\* per second, user 3 without ACL. User 4 has been removed; its token is
\* still in the store.
GuardUserIds == {1, 2, 3}
GuardAcl(user_id) ==
    CASE user_id = 1 -> Some(AccessControl(Some({"10.0.0.1"}), Some(RateLimit(2, 2))))
      [] user_id = 2 -> Some(AccessControl(None, Some(RateLimit(1, 1))))
      [] OTHER -> None

\* The tokens of the runs: a WebUI token of user 1, an API token of user 2
\* that expires at 1 s, an API token of user 3 and a WebUI token of user 4.
GuardTokens ==
    << AccessTokenModel(1, "WebUI", 0, NoExpiry),
       AccessTokenModel(2, "Api", 0, MsPerSecond),
       AccessTokenModel(3, "Api", 0, NoExpiry),
       AccessTokenModel(4, "WebUI", 0, NoExpiry) >>

\* Half seconds, then an instant past the life of a WebUI token.
GuardInstants == {0, 500, 1000, 1500, max_life + 1}

\* The bearer token of a request: none, an unknown string, or a token of
\* the store.
BearerTokens == {None} \cup {Some(t) : t \in 0..Len(GuardTokens)}

\* The quota of the limiter a user gets: max_burst cells, one cell
\* replenished per replenish_1_per milliseconds. The limiter is built from
\* { quota, interval } either with the interval divided over the cells or
\* with one cell per interval.
Quotas(rate_limit) ==
    { [max_burst |-> rate_limit.quota,
       replenish_1_per |-> (rate_limit.interval * MsPerSecond) \div rate_limit.quota],
      [max_burst |-> rate_limit.quota,
       replenish_1_per |-> rate_limit.interval * MsPerSecond] }

\* A limiter that has not decided anything yet; tat is the theoretical
\* arrival time of the cell rate algorithm.
Limiter(quota) ==
    [t |-> quota.replenish_1_per, tau |-> quota.replenish_1_per * quota.max_burst,
     tat |-> None]

\* The earliest instant at which the limiter lets a cell pass.
EarliestTime(limiter, t0) ==
    LET tat == IF limiter.tat = None THEN t0 + limiter.t ELSE Unwrap(limiter.tat)
    IN  IF tat > limiter.tau THEN tat - limiter.tau ELSE 0

\* limiter.check() at t0: Ok and the new state, or Err(not_until)
LimiterCheck(limiter, t0) ==
    LET tat == IF limiter.tat = None THEN t0 + limiter.t ELSE Unwrap(limiter.tat)
        earliest == EarliestTime(limiter, t0)
    IN  IF t0 < earliest
        THEN [ok |-> FALSE, not_until |-> earliest, limiter |-> limiter]
        ELSE [ok |-> TRUE, not_until |-> 0,
              limiter |-> [limiter EXCEPT
                              !.tat = Some((IF tat > t0 THEN tat ELSE t0) + limiter.t)]]

\* RATE_LIMITER_MANAGER.check(user_id, rate_limit): the outcomes, one per
\* quota the limiter of the user may have been built with
RateLimiterCheck(user_id, rate_limit) ==
    IF user_id \in DOMAIN limiters
    THEN {LimiterCheck(limiters[user_id], now)}
    ELSE {LimiterCheck(Limiter(q), now) : q \in Quotas(rate_limit)}

\* not_until.wait_time_from(now).as_secs()
WaitSecs(not_until) ==
    (IF not_until > now THEN not_until - now ELSE 0) \div MsPerSecond

\* resolve_user_from_token(token), token lookup to user lookup in one step
resolve_user_from_token(t) ==
    IF ~TokenFound(t) THEN "PermissionDenied"
    ELSE IF tokens[t].token_type = "WebUI" /\ WebUIExpired(tokens[t], now)
    THEN "PermissionDenied"
    ELSE IF tokens[t].token_type = "Api" /\ ApiExpired(tokens[t], now)
    THEN "PermissionDenied"
    ELSE FindUser(tokens[t].user_id)

\* The token table after resolve_user_from_token(token): last_access_at of
\* an API token that has not expired
TokensResolved(t) ==
    IF TokenFound(t) /\ tokens[t].token_type = "Api" /\ ~ApiExpired(tokens[t], now)
    THEN [tokens EXCEPT ![t].last_access_at = now]
    ELSE tokens

\* extract_client_context(req): the user id of the context, or 0 with the
\* error of the response
extract_client_context(bearer) ==
    IF bearer = None THEN [user_id |-> 0, error |-> "PermissionDenied"]
    ELSE IF resolve_user_from_token(Unwrap(bearer)) # "Ok"
    THEN [user_id |-> 0, error |-> "PermissionDenied"]
    ELSE [user_id |-> tokens[Unwrap(bearer)].user_id, error |-> "none"]

Answer(bearer, ip, user_id, result, wait) ==
    [token |-> bearer, ip |-> ip, user_id |-> user_id, at |-> now,
     result |-> result, wait |-> wait]

GuardUnchanged ==
    UNCHANGED <<ivars, avars, user, roles, apiResult, userIds, tokResult,
                expiredSeen, uvars, cvars, mvars, envelopeIndex, emlIndex, delTask,
                mboxTest, zvars>>

\* Faulty variant of authorize_access: the rate limit is applied before the
\* allow-list.
authorize_access_limit_first(bearer, ip) ==
    LET context == extract_client_context(bearer)
        acl == GuardAcl(context.user_id)
        listed == \/ acl = None
                  \/ Unwrap(acl).ip_whitelist = None
                  \/ ip \in Unwrap(Unwrap(acl).ip_whitelist)
        limited == acl # None /\ Unwrap(acl).rate_limit # None
    IN  /\ tokens' = (IF bearer = None THEN tokens ELSE TokensResolved(Unwrap(bearer)))
        /\ IF context.error # "none"
           THEN /\ guardLog' = Append(guardLog, Answer(bearer, ip, 0, context.error, 0))
                /\ UNCHANGED limiters
           ELSE IF limited
           THEN \E c \in RateLimiterCheck(context.user_id, Unwrap(Unwrap(acl).rate_limit)) :
                    /\ limiters' = (context.user_id :> c.limiter) @@ limiters
                    /\ guardLog' = Append(guardLog,
                           IF ~c.ok
                           THEN Answer(bearer, ip, context.user_id, "TooManyRequest",
                                       WaitSecs(c.not_until))
                           ELSE IF ~listed
                           THEN Answer(bearer, ip, context.user_id, "Forbidden", 0)
                           ELSE Answer(bearer, ip, context.user_id, "Ok", 0))
           ELSE /\ guardLog' = Append(guardLog,
                       Answer(bearer, ip, context.user_id,
                              IF listed THEN "Ok" ELSE "Forbidden", 0))
                /\ UNCHANGED limiters

\* authorize_access(req)
authorize_access(bearer, ip) ==
    LET context == extract_client_context(bearer)
        acl == GuardAcl(context.user_id)
        listed == \/ acl = None
                  \/ Unwrap(acl).ip_whitelist = None
                  \/ ip \in Unwrap(Unwrap(acl).ip_whitelist)
        limited == acl # None /\ Unwrap(acl).rate_limit # None
    IN  /\ tokens' = (IF bearer = None THEN tokens ELSE TokensResolved(Unwrap(bearer)))
        /\ IF context.error # "none"
           THEN /\ guardLog' = Append(guardLog, Answer(bearer, ip, 0, context.error, 0))
                /\ UNCHANGED limiters
           ELSE IF ~listed
           THEN /\ guardLog' = Append(guardLog,
                       Answer(bearer, ip, context.user_id, "Forbidden", 0))
                /\ UNCHANGED limiters
           ELSE IF limited
           THEN \E c \in RateLimiterCheck(context.user_id, Unwrap(Unwrap(acl).rate_limit)) :
                    /\ limiters' = (context.user_id :> c.limiter) @@ limiters
                    /\ guardLog' = Append(guardLog,
                           IF c.ok
                           THEN Answer(bearer, ip, context.user_id, "Ok", 0)
                           ELSE Answer(bearer, ip, context.user_id, "TooManyRequest",
                                       WaitSecs(c.not_until)))
           ELSE /\ guardLog' = Append(guardLog,
                       Answer(bearer, ip, context.user_id, "Ok", 0))
                /\ UNCHANGED limiters

\* ApiGuardEndpoint::call: one request through the middleware
ApiGuardCall(bearer, ip) ==
    /\ Len(guardLog) < MaxRequests
    /\ authorize_access(bearer, ip)
    /\ UNCHANGED now
    /\ GuardUnchanged

\* Time passes.
GuardTick(t) ==
    /\ t > now
    /\ now' = t
    /\ UNCHANGED <<tokens, limiters, guardLog>>
    /\ GuardUnchanged

InitGuard ==
    /\ IndexAtRest(EmptyBag)
    /\ InitAdmin
    /\ user = NoUser
    /\ roles = << >>
    /\ apiResult = NoResult
    /\ now = 0
    /\ tokens = GuardTokens
    /\ userIds = GuardUserIds
    /\ tokResult = NoResult
    /\ expiredSeen = {}
    /\ InitU
    /\ InitC
    /\ InitM
    /\ envelopeIndex = EmptyIndex
    /\ emlIndex = EmptyIndex
    /\ delTask = [pc |-> "idle"]
    /\ limiters = << >>
    /\ guardLog = << >>
    /\ mboxTest = [pc |-> "idle"]
    /\ InitZ

NextGuard ==
    \/ \E bearer \in BearerTokens, ip \in ClientIps : ApiGuardCall(bearer, ip)
    \/ \E t \in GuardInstants : GuardTick(t)

\* Requests through the middleware while time passes.
SpecGuard == InitGuard /\ [][NextGuard]_vars

\* The bearer token of the answer names a token of the store that has not
\* expired at the time of the request and whose user exists.
C27_TokenAccepted(r) ==
    /\ r.token # None
    /\ Unwrap(r.token) \in DOMAIN GuardTokens
    /\ LET tok == GuardTokens[Unwrap(r.token)]
       IN  /\ ~(tok.token_type = "WebUI" /\ r.at - tok.created_at > max_life)
           /\ ~(tok.token_type = "Api" /\ tok.expire_at # NoExpiry
                /\ r.at > tok.expire_at)
           /\ tok.user_id \in GuardUserIds

\* The client address passes the allow-list of the user of the token.
C27_IpAllowed(r) ==
    LET acl == GuardAcl(GuardTokens[Unwrap(r.token)].user_id)
    IN  \/ acl = None
        \/ Unwrap(acl).ip_whitelist = None
        \/ r.ip \in Unwrap(Unwrap(acl).ip_whitelist)

\* Every answer is that of the first check the request fails.
C27_Answers ==
    \A i \in DOMAIN guardLog :
        LET r == guardLog[i] IN
        IF ~C27_TokenAccepted(r) THEN r.result = "PermissionDenied"
        ELSE IF ~C27_IpAllowed(r) THEN r.result = "Forbidden"
        ELSE r.result \in {"Ok", "TooManyRequest"}

\* A request answered permission-denied or forbidden leaves every rate
\* limiter as it was.
C27_Untouched ==
    (/\ Len(guardLog') = Len(guardLog) + 1
     /\ guardLog'[Len(guardLog')].result \in {"PermissionDenied", "Forbidden"})
        => limiters' = limiters

\* C27: the middleware checks, in this order, that a token is present, that
\* it is valid and not expired, that its user exists, the IP allow-list and
\* the rate limit; a request rejected at one step does not reach a later
\* one: one rejected by the allow-list or for its token takes nothing from
\* any rate-limit bucket.
C27_CheckOrder == []C27_Answers /\ [][C27_Untouched]_vars

\* A request of user 1 has passed its rate limiter, and the next request
\* with its token, from an address off the allow-list, was answered
\* forbidden.
C27_Witness ==
    /\ Len(guardLog) = 3
    /\ guardLog[2].result = "Ok" /\ guardLog[2].user_id = 1
    /\ 1 \in DOMAIN limiters
    /\ guardLog[3].result = "Forbidden"
    /\ guardLog[3].token = guardLog[2].token

\* C24: a request rejected by the rate limiter is answered TooManyRequest
\* with a remaining wait time in whole seconds that is greater than 0.
C24_WaitPositive ==
    \A i \in DOMAIN guardLog :
        guardLog[i].result = "TooManyRequest" => guardLog[i].wait > 0

\* A request was rejected by the rate limiter half a second before the
\* next cell, and the answer reports a wait of 0 seconds.
C24_Witness ==
    \E i \in DOMAIN guardLog :
        /\ guardLog[i].result = "TooManyRequest"
        /\ guardLog[i].wait = 0
        /\ guardLog[i].at = 500

(***************************************************************************)
(* Part VIII: the import scenario against the clock                        *)
(* (import/mbox_tests.rs, the writer tasks of indexer/manager.rs)          *)
(***************************************************************************)
\* const MAX_BUFFER_DURATION, in milliseconds
MAX_BUFFER_DURATION == 30 * MsPerSecond
\* The instants of the clock: the start, one second later, and the seconds
\* around the second tick.
ClockInstants ==
    {0, MsPerSecond, MAX_BUFFER_DURATION - MsPerSecond, MAX_BUFFER_DURATION,
     MAX_BUFFER_DURATION + MsPerSecond}

\* The ids in the buffer of the envelope writer task and of the EML writer
\* task: enqueued and not committed (one import: an id that was committed
\* is not enqueued again).
EnvelopeBuffer ==
    {envDocs[i].id : i \in DOMAIN envDocs} \ {d.id : d \in envelopeIndex.committed}
EmlBuffer == {emlDocs[i].id : i \in (nCommitted + 1)..Len(emlDocs)}

\* drain_and_commit of the envelope writer task: the index holds every
\* enqueued document, one per id
EnvelopeFlush ==
    envelopeIndex' = [committed |-> {envDocs[i] : i \in DOMAIN envDocs},
                      pending |-> {}]

\* The variables a step of the scenario's clock and writer tasks leaves alone
ClockUnchanged ==
    UNCHANGED <<ivars, avars, user, roles, apiResult, tokens, userIds, tokResult,
                expiredSeen, uvars, cvars, mboxFiles, reg, envDocs, emlDocs, job,
                getResult, runningState, emlIndex, delTask, limiters, guardLog,
                zvars>>

\* The instants of interval.tick(): both writer tasks start at instant 0; the
\* first tick completes at once, the later ones every MAX_BUFFER_DURATION.
TickInstant(t) == t % MAX_BUFFER_DURATION = 0

\* A tick that the writer tasks serve before time goes on: after the start,
\* with something in a buffer.
TickDue == now > 0 /\ TickInstant(now) /\ (EnvelopeBuffer # {} \/ EmlBuffer # {})

\* _ = interval.tick() of the two writer tasks, with something in a buffer
WriterTick ==
    /\ TickInstant(now)
    /\ EnvelopeBuffer # {} \/ EmlBuffer # {}
    /\ EnvelopeFlush
    /\ nCommitted' = Len(emlDocs)
    /\ UNCHANGED <<now, mboxTest>>
    /\ ClockUnchanged

\* buffer.len() >= ENVELOPE_BATCH_SIZE after a Document message
EnvelopeBatchFlush ==
    /\ Cardinality(EnvelopeBuffer) >= ENVELOPE_BATCH_SIZE
    /\ EnvelopeFlush
    /\ UNCHANGED <<now, nCommitted, mboxTest>>
    /\ ClockUnchanged

\* buffer.len() >= EML_BATCH_SIZE after a Document message
EmlBatchFlush ==
    /\ Cardinality(EmlBuffer) >= EML_BATCH_SIZE
    /\ nCommitted' = Len(emlDocs)
    /\ UNCHANGED <<now, envelopeIndex, mboxTest>>
    /\ ClockUnchanged

\* Time passes, to the next instant.
ClockPass ==
    /\ ~TickDue
    /\ \E t \in ClockInstants :
           /\ t > now
           /\ \A u \in ClockInstants : ~(now < u /\ u < t)
           /\ now' = t
    /\ UNCHANGED <<envelopeIndex, nCommitted, mboxTest>>
    /\ ClockUnchanged

\* The messages of the file that can be parsed.
Parseable(input) ==
    {i \in DOMAIN input :
        input[i].message # None /\ Extractable(Unwrap(input[i].message))}

\* tokio::time::sleep(Duration::from_secs(1)) after the import has returned
TestSleep ==
    /\ mboxTest.pc = "idle"
    /\ job.pc = "returned"
    /\ job.op = "mbox"
    /\ mboxTest' = [pc |-> "sleep", wake |-> now + MsPerSecond]
    /\ UNCHANGED <<now, envelopeIndex, nCommitted>>
    /\ ClockUnchanged

\* After the sleep: the search of the account in the envelope index, then
\* EML_INDEX_MANAGER.get for every envelope found
TestSearch ==
    /\ mboxTest.pc = "sleep"
    /\ now >= mboxTest.wake
    /\ LET found == {d \in envelopeIndex.committed : d.account_id = job.account_id}
       IN  mboxTest' = [pc |-> "searched", wake |-> mboxTest.wake, at |-> now,
                        found |-> found,
                        raw |-> [d \in found |-> get(job.account_id, d.id)]]
    /\ UNCHANGED <<now, envelopeIndex, nCommitted>>
    /\ ClockUnchanged

InitQuiesce ==
    /\ InitBeforeM
    /\ InitM

NextQuiesce ==
    \/ \E mail_folder \in Folders, messages \in MboxContents :
           \E account_id \in {a \in Accounts : AccountTypeOf(a) = "NoSync"} :
               ImportMboxBegin("a.mbox", account_id, mail_folder, messages, TRUE)
    \/ ImportNext
    \/ ImportReturn
    \/ WriterTick
    \/ EnvelopeBatchFlush
    \/ EmlBatchFlush
    \/ ClockPass
    \/ TestSleep
    \/ TestSearch

\* One MBOX import into the NoSync account at any instant, the writer tasks,
\* and the test that sleeps and searches.
SpecQuiesce == InitQuiesce /\ [][NextQuiesce]_vars

\* The import of the scenario has returned Ok for a file whose parseable
\* messages stay below both batch thresholds, and the search was made.
C25_Case ==
    /\ mboxTest.pc = "searched"
    /\ job.result = "Ok"
    /\ Cardinality(Parseable(job.input)) >= 1
    /\ Cardinality(Parseable(job.input)) < ENVELOPE_BATCH_SIZE
    /\ Cardinality(Parseable(job.input)) < EML_BATCH_SIZE

\* C25: after import_mbox_from_path has returned for a file with n parseable
\* messages, n below the batch threshold, in a NoSync account, and one second
\* has passed, the search of the account returns n envelopes and the raw
\* bytes of each of them are returned by the EML index.
C25_Quiesce ==
    C25_Case =>
        /\ mboxTest.at >= mboxTest.wake
        /\ Cardinality(mboxTest.found) = Cardinality(Parseable(job.input))
        /\ \A d \in mboxTest.found : mboxTest.raw[d].kind = "Some"

\* The search one second after the import returned, before the next tick of
\* the writer tasks: no envelope is found.
C25_Witness ==
    /\ C25_Case
    /\ mboxTest.at = mboxTest.wake
    /\ mboxTest.at < MAX_BUFFER_DURATION
    /\ mboxTest.found = {}

(***************************************************************************)
(* Part IX: retrieval by sequence number (imap/executor.rs):               *)
(* batch_retrieve_emails                                                   *)
(***************************************************************************)
\* The number of values of the integer type of page, page_size and total
\* (u64 in the source, scaled down)
U64 == 16
\* Upper bounds on the messages of the mailbox, on page_size and on the
\* pages asked for.
MaxTotal == 4
MaxPageSize == 15
MaxPageNo == 6

saturating_sub(a, b) == IF a >= b THEN a - b ELSE 0

\* The answers of batch_retrieve_emails before the fetched messages are
\* processed: a panic, Ok(0) without a fetch, or the fetch of start:end
RangePanic == [kind |-> "panic", start |-> 0, end |-> 0]
RangeNone == [kind |-> "Ok(0)", start |-> 0, end |-> 0]
RangeFetch(start, end) == [kind |-> "fetch", start |-> start, end |-> end]

\* batch_retrieve_emails(.., page, page_size, .., desc) for a mailbox with
\* total messages, up to the FETCH command. An arithmetic overflow panics in
\* a build with overflow checks and wraps in a build without.
batch_retrieve_emails(total, page, page_size, desc, overflow_checks) ==
    IF page = 0 \/ page_size = 0 THEN RangePanic
    ELSE IF total = 0 THEN RangeNone
    ELSE LET skip == (page - 1) * page_size IN
         IF skip >= U64 /\ overflow_checks THEN RangePanic
         ELSE IF desc
         THEN LET end == saturating_sub(total, skip % U64) IN
              IF end = 0 THEN RangeNone
              ELSE LET start == saturating_sub(end, page_size - 1)
                   IN  RangeFetch(IF start >= 1 THEN start ELSE 1, end)
         ELSE LET start == (skip % U64) + 1
                  sum == (start % U64) + page_size
              IN  IF overflow_checks /\ (start >= U64 \/ sum >= U64) THEN RangePanic
                  ELSE IF start % U64 > total THEN RangeNone
                  ELSE LET last == ((sum % U64) + U64 - 1) % U64
                       IN  RangeFetch(start % U64,
                                      IF last <= total THEN last ELSE total)

SeqUnchanged ==
    UNCHANGED <<ivars, avars, user, roles, apiResult, now, tokens, userIds,
                tokResult, expiredSeen, uvars, cvars, mboxFiles, reg, envDocs,
                emlDocs, nCommitted, getResult, runningState, rvars>>

\* The first call for a mailbox: page 1
BatchRetrieveFirst(total, page_size, desc, overflow_checks) ==
    /\ job.pc = "idle"
    /\ job' = [op |-> "batch", pc |-> "returned", total |-> total,
               page_size |-> page_size, desc |-> desc,
               overflow_checks |-> overflow_checks,
               pages |-> <<batch_retrieve_emails(total, 1, page_size, desc,
                                                 overflow_checks)>>]
    /\ SeqUnchanged

\* The call for the next page of the same mailbox
BatchRetrieveNext ==
    /\ job.pc = "returned"
    /\ job.op = "batch"
    /\ Len(job.pages) < MaxPageNo
    /\ job' = [job EXCEPT !.pages =
                   Append(@, batch_retrieve_emails(job.total, Len(job.pages) + 1,
                                                   job.page_size, job.desc,
                                                   job.overflow_checks))]
    /\ SeqUnchanged

NextSeq ==
    \/ \E total \in 0..MaxTotal, page_size \in 1..MaxPageSize,
          desc \in BOOLEAN, overflow_checks \in BOOLEAN :
           BatchRetrieveFirst(total, page_size, desc, overflow_checks)
    \/ BatchRetrieveNext

\* The pages 1, 2, 3, ... of one mailbox, asked for in order.
SpecSeq == InitIngest /\ [][NextSeq]_vars

\* The sequence numbers of a page.
RangeOf(r) == IF r.kind = "fetch" THEN r.start..r.end ELSE {}

\* The number of the last page: ceil(total / page_size)
LastPage(total, page_size) == (total + page_size - 1) \div page_size

C28_Case == job.pc = "returned" /\ job.op = "batch" /\ job.total >= 1

\* C28: for total >= 1 and page_size >= 1 the ranges fetched for pages 1, 2,
\* 3, ... are non-empty, pairwise disjoint, of at most page_size numbers,
\* inside 1..total, and their union is 1..total, in ascending order (page 1
\* starts at 1) and in descending order (page 1 ends at total); every page
\* past the last one returns 0 without a fetch.
C28_Ranges ==
    C28_Case =>
        LET last == LastPage(job.total, job.page_size)
            asked == DOMAIN job.pages
        IN  /\ \A p \in asked :
                   IF p > last THEN job.pages[p] = RangeNone
                   ELSE /\ job.pages[p].kind = "fetch"
                        /\ RangeOf(job.pages[p]) # {}
                        /\ Cardinality(RangeOf(job.pages[p])) <= job.page_size
                        /\ RangeOf(job.pages[p]) \subseteq 1..job.total
            /\ \A p, q \in asked :
                   p # q => RangeOf(job.pages[p]) \cap RangeOf(job.pages[q]) = {}
            /\ last \in asked =>
                   UNION {RangeOf(job.pages[p]) : p \in asked} = 1..job.total
            /\ IF job.desc THEN job.pages[1].end = job.total
               ELSE job.pages[1].start = 1

\* A page past the last one for which a FETCH is issued.
C28_Witness ==
    /\ C28_Case
    /\ \E p \in DOMAIN job.pages :
           /\ p > LastPage(job.total, job.page_size)
           /\ job.pages[p].kind = "fetch"

(***************************************************************************)
(* update_envelope_tags against the running writer task                    *)
(***************************************************************************)
\* A document matches a listed (account_id, id) pair of the request.
TagsListed(d) == d.account = aop.account_id /\ d.id \in aop.envelope_ids

\* The same document but for its tags.
SameButTags(d, o) == d.id = o.id /\ d.account = o.account /\ d.body = o.body

\* What the commit of update_envelope_tags is to do to the committed index.
TagsReplaced ==
    /\ \A d \in BagToSet(committed') :
           TagsListed(d) =>
               /\ d.tags = aop.tags
               /\ \E o \in BagToSet(committed) : SameButTags(d, o)
    /\ \A o \in BagToSet(committed) :
           TagsListed(o) => \E d \in BagToSet(committed') : SameButTags(d, o)
    /\ \A d \in BagToSet(committed) \cup BagToSet(committed') :
           ~TagsListed(d) => CopiesIn(d, committed') = CopiesIn(d, committed)

\* C29: when update_envelope_tags(updates, tags) succeeds, every committed
\* document matching a listed (account_id, id) pair has exactly the tags of
\* the request and its other fields as before, the documents that are not
\* listed are untouched, a listed id without a matching document changes
\* nothing, and all of it becomes visible in the one commit.
C29_UpdateTags ==
    [][(aop.kind = "update_envelope_tags" /\ AdminCommit) => TagsReplaced]_vars

\* update_envelope_tags has returned and a listed document carries the tags
\* of the request.
C29_Witness ==
    /\ apc = "idle"
    /\ aop.kind = "update_envelope_tags"
    /\ aop.tags # {}
    /\ \E d \in BagToSet(committed) : TagsListed(d) /\ d.tags = aop.tags

(***************************************************************************)
(* search-messages and the caller's permission to read                     *)
(***************************************************************************)
\* C30: every envelope that search-messages returns to a caller belongs to
\* an account for which has_permission(account, DATA_READ) is true for that
\* caller.
C30_SearchPermitted ==
    apiResult.op = "search_messages" =>
        \A i \in 1..Len(apiResult.items) :
            has_permission(user, apiResult.items[i].account, DATA_READ)

\* A caller with DATA_READ on one account and not on the other has searched
\* without an account filter and was answered with envelopes.
C30_Witness ==
    /\ apiResult.op = "search_messages"
    /\ apiResult.error = "none"
    /\ apiResult.filter.account_id = NoAccount
    /\ apiResult.items # << >>
    /\ \E a, b \in Accounts :
           /\ has_permission(user, a, DATA_READ)
           /\ ~has_permission(user, b, DATA_READ)

(***************************************************************************)
(* What ACCOUNT_MANAGE on an account implies                               *)
(***************************************************************************)
\* has_permission(account, ACCOUNT_MANAGE) was asked and answered true.
C31_Manages ==
    /\ apiResult.op = "has_permission"
    /\ apiResult.perm = ACCOUNT_MANAGE
    /\ apiResult.account # NoAccount
    /\ apiResult.result

\* The role the access map gives the caller on the account carries
\* ACCOUNT_MANAGE.
C31_ByAccountRole ==
    /\ apiResult.account \in DOMAIN user.account_access_map
    /\ RoleFound(user.account_access_map[apiResult.account])
    /\ ACCOUNT_MANAGE \in roles[user.account_access_map[apiResult.account]]

\* For every user and account a, has_permission(a, ACCOUNT_MANAGE) implies
\* has_permission(a, DATA_READ) and has_permission(a, ACCOUNT_READ_DETAILS),
\* whichever way ACCOUNT_MANAGE was obtained.
C31_Closed ==
    C31_Manages =>
        /\ has_permission(user, apiResult.account, DATA_READ)
        /\ has_permission(user, apiResult.account, ACCOUNT_READ_DETAILS)

\* C31 (amended): when has_permission(a, ACCOUNT_MANAGE) is true, DATA_READ
\* and ACCOUNT_READ_DETAILS on a are true if the role of the account carries
\* ACCOUNT_MANAGE, and ACCOUNT_READ_DETAILS on a is true if a global role
\* carries ACCOUNT_MANAGE_ALL.
C31_ManageImplies ==
    C31_Manages =>
        /\ C31_ByAccountRole =>
               /\ has_permission(user, apiResult.account, DATA_READ)
               /\ has_permission(user, apiResult.account, ACCOUNT_READ_DETAILS)
        /\ ACCOUNT_MANAGE_ALL \in get_all_permissions(user) =>
               has_permission(user, apiResult.account, ACCOUNT_READ_DETAILS)

\* A caller without ROOT whose only source of ACCOUNT_MANAGE is the global
\* ACCOUNT_MANAGE_ALL was answered true.
C31_Witness ==
    /\ C31_Manages
    /\ ~is_admin(user)
    /\ ~C31_ByAccountRole
    /\ get_all_permissions(user) = {ACCOUNT_MANAGE_ALL}

(***************************************************************************)
(* Part X: concurrent resets of the WebUI token (token/mod.rs,             *)
(* users/mod.rs)                                                           *)
(***************************************************************************)
\* The concurrent request tasks and what they run: a login or an update
\* that changes the password, both of the same user.
ResetCallers == {"a", "b", "c"}
ResetKinds == {"authenticate_user", "update"}
ResetUser == DEFAULT_ADMIN_USER_ID

ResetTask(kind, pc, old, result) ==
    [kind |-> kind, pc |-> pc, old |-> old, result |-> result]

ResetUnchanged ==
    UNCHANGED <<ivars, avars, user, roles, apiResult, now, userIds, tokResult,
                expiredSeen, uvars, cvars, mvars, envelopeIndex, emlIndex,
                delTask, limiters, guardLog, mboxTest, deleteDone>>

\* authenticate_user with the right password, or update after the
\* transaction that changed the password: reset_webui_token(user.id) is
\* called
ResetBegin(c, kind) ==
    /\ c \notin DOMAIN resetTasks
    /\ resetTasks' = resetTasks @@ (c :> ResetTask(kind, "find", None, "pending"))
    /\ UNCHANGED tokens
    /\ ResetUnchanged

\* let old_token = Self::get_user_webui_token(user_id).await?
ResetFind(c) ==
    /\ c \in DOMAIN resetTasks
    /\ resetTasks[c].pc = "find"
    /\ LET found == get_user_webui_token(ResetUser) IN
       \E old \in (IF found = {} THEN {None} ELSE {Some(t) : t \in found}) :
           resetTasks' = [resetTasks EXCEPT ![c].pc = "write", ![c].old = old]
    /\ UNCHANGED tokens
    /\ ResetUnchanged

\* match old_token: the transaction of rw.remove(old) and
\* rw.insert(new_token), which fails when the old row is gone, or
\* insert_impl(new_token)
ResetWrite(c) ==
    /\ c \in DOMAIN resetTasks
    /\ resetTasks[c].pc = "write"
    /\ LET old == resetTasks[c].old IN
       IF old = None
       THEN /\ tokens' = Append(tokens, new_webui_token(ResetUser))
            /\ resetTasks' = [resetTasks EXCEPT ![c].pc = "returned",
                                                ![c].result = "Ok"]
       ELSE IF tokens[Unwrap(old)].present
       THEN /\ tokens' = Append([tokens EXCEPT ![Unwrap(old)].present = FALSE],
                                new_webui_token(ResetUser))
            /\ resetTasks' = [resetTasks EXCEPT ![c].pc = "returned",
                                                ![c].result = "Ok"]
       ELSE /\ tokens' = tokens
            /\ resetTasks' = [resetTasks EXCEPT ![c].pc = "returned",
                                                ![c].result = "InternalError"]
    /\ ResetUnchanged

\* The user has the WebUI token of its creation.
InitResets ==
    /\ IndexAtRest(EmptyBag)
    /\ InitAdmin
    /\ user = NoUser
    /\ roles = << >>
    /\ apiResult = NoResult
    /\ now = 0
    /\ userIds = {ResetUser}
    /\ tokens = <<new_webui_token(ResetUser)>>
    /\ tokResult = NoResult
    /\ expiredSeen = {}
    /\ InitP

NextResets ==
    \/ \E c \in ResetCallers, kind \in ResetKinds : ResetBegin(c, kind)
    \/ \E c \in ResetCallers : ResetFind(c)
    \/ \E c \in ResetCallers : ResetWrite(c)

\* Logins and password changes of one user, interleaved.
SpecResets == InitResets /\ [][NextResets]_vars

\* C32: under any interleaving of concurrent logins and password changes of
\* one user every operation succeeds, the user has at most one WebUI token
\* in every state, and exactly one once the operations have finished.
C32_OneWebUIToken ==
    /\ \A c \in DOMAIN resetTasks :
           resetTasks[c].pc = "returned" => resetTasks[c].result = "Ok"
    /\ Cardinality(get_user_webui_token(ResetUser)) <= 1
    /\ (/\ resetTasks # << >>
        /\ \A c \in DOMAIN resetTasks : resetTasks[c].pc = "returned")
       => Cardinality(get_user_webui_token(ResetUser)) = 1

\* A login and a password change found the same WebUI token; the login
\* has returned Ok and the password change an error.
C32_Witness ==
    \E c, d \in DOMAIN resetTasks :
        /\ resetTasks[c].kind = "authenticate_user"
        /\ resetTasks[d].kind = "update"
        /\ resetTasks[c].old = resetTasks[d].old
        /\ resetTasks[c].result = "Ok"
        /\ resetTasks[d].result = "InternalError"
\* The ids of the documents a sequence of enqueued documents carries.
C33_Ids(docs, base) == {docs[i].id : i \in (base + 1)..Len(docs)}

\* The step in progress or returned has enqueued an envelope document
\* without an EML document of the same id, or the reverse.
C33_Unpaired ==
    C33_Ids(envDocs, job.base_env) # C33_Ids(emlDocs, job.base_eml)

\* C33: an ingestion step (IMAP fetch, MBOX import, EML import) enqueues an
\* envelope document for a message id exactly when it enqueues an EML
\* document with that id, also when the step ends with an error.
C33_Paired == ~JobIdle => ~C33_Unpaired

\* A UID fetch ended with an error after it enqueued the envelope document
\* of a message whose answer carried no body.
C33_Witness ==
    /\ ~JobIdle
    /\ job.op = "fetch"
    /\ job.pc = "returned"
    /\ job.result = "Err"
    /\ C33_Unpaired
    /\ Len(envDocs) = Len(emlDocs) + 1

(***************************************************************************)
(* Part XI: a delete while documents wait in the write queue               *)
(* (indexer/manager.rs: delete_account_envelopes,                          *)
(* delete_envelopes_multi_account against the writer task)                 *)
(***************************************************************************)
\* A delete that returned Ok: the account, the ids (0 for the whole
\* account) and the number of add_document calls made until then.
Deleted(account, ids, adds) == [account |-> account, ids |-> ids, adds |-> adds]

\* delete_account_envelopes / delete_envelopes_multi_account, up to the lock;
\* the operation records which documents it deletes.
DeleteBegin(account, ids) ==
    AdminBeginFor([kind |-> "delete", account |-> account, ids |-> ids],
                  DeleteQueryCalls(account, SeqOfSet(ids)) \o <<CallCommit>>)

\* writer.commit() of the delete succeeded: Ok(())
DeleteCommit ==
    /\ AdminCommitted
    /\ deleteDone' = Append(deleteDone, Deleted(aop.account, aop.ids, nAdds))
    /\ UNCHANGED <<user, roles, apiResult, now, tokens, userIds, tokResult,
                   expiredSeen, uvars, cvars, mvars, envelopeIndex, emlIndex,
                   delTask, limiters, guardLog, mboxTest, resetTasks>>

NextPurge ==
    \/ NextIndex
    \/ \E a \in Accounts : DeleteBegin(a, {0})
    \/ \E a \in Accounts, S \in (SUBSET Ids) \ {{}} : DeleteBegin(a, S)
    \/ AdminLock
    \/ AdminCall
    \/ DeleteCommit
    \/ AdminCallFails

\* The index manager with one request task that deletes.
SpecPurge == Init /\ [][NextPurge]_vars

\* The committed index holds a document the delete names.
Observed(del) ==
    \E d \in BagToSet(committed) :
        d.account = del.account /\ (0 \in del.ids \/ d.id \in del.ids)

\* C34: after a delete of (account, id) returned Ok, and as long as no
\* add_document was issued since, the committed index (what search, list
\* and get read) holds no document of that account with that id, also when
\* a document with that id waited in the queue or the buffer during the
\* delete.
C34_DeleteSticks ==
    \A i \in 1..Len(deleteDone) :
        nAdds = deleteDone[i].adds => ~Observed(deleteDone[i])

\* A delete returned Ok while a document it names waited in the queue or in
\* the buffer, and no add_document was issued since.
C34_Witness ==
    /\ deleteDone # << >>
    /\ nAdds = deleteDone[1].adds
    /\ \E e \in DOMAIN buffer :
           /\ AccountOf(e) = deleteDone[1].account
           /\ (0 \in deleteDone[1].ids \/ e \in deleteDone[1].ids)

(***************************************************************************)
(* Part XII: the handlers that change roles and access maps                *)
(* (rest/api/users.rs: update_user; account/grant.rs)                      *)
(***************************************************************************)
USER_MANAGE == "USER_MANAGE"

\* The roles of kind Account; the roles of RoleIds are of kind Global.
AccountRoleIds == {3, 4}

\* A call of the REST API: the user of the ClientContext and the request.
ApiCall(op, caller, id, payload) ==
    [op |-> op, caller |-> caller, id |-> id, payload |-> payload]

\* The bodies of update_user: a username or none, with any of
\* global_roles, account_access_map and acl.
UpdatePayloads ==
    {[UserUpdateRequest(n, None, None, g) EXCEPT !.account_access_map = m,
                                                 !.acl = c] :
        n \in Options({"placeholder@example.com", "admin"}),
        g \in Options({{1}, {2}}),
        m \in Options({<< >>, 1 :> 3}), c \in Options({"deny"})}

\* Faulty variant of Unprivileged: account_access_map and acl stay in the
\* request.
UnprivilegedRolesOnly(update_data) == [update_data EXCEPT !.global_roles = None]

\* update_data.global_roles = None; update_data.account_access_map = None;
\* update_data.acl = None;
Unprivileged(update_data) ==
    [update_data EXCEPT !.global_roles = None, !.account_access_map = None,
                        !.acl = None]

HandlerUnchanged ==
    UNCHANGED <<ivars, avars, user, roles, now, tokResult, expiredSeen, cvars,
                mvars, rvars>>

\* UsersApi::update_user(id, payload, context), context.user being the row
\* of the caller; one request per behaviour
update_user(caller, target_id, payload) ==
    /\ apiResult = NoResult
    /\ caller \in userIds
    /\ HandlerUnchanged
    /\ apiResult' = ApiCall("update_user", caller, target_id, payload)
    /\ LET context == userRecs[caller]
           manage == has_permission(context, NoAccount, USER_MANAGE)
       IN  IF caller # target_id /\ ~manage
           THEN /\ userResult' = UserResult("update", target_id,
                                            payload.global_roles # None, "Forbidden")
                /\ UNCHANGED <<userIds, userRecs, tokens>>
           ELSE UpdateCall(target_id,
                           IF caller = target_id /\ ~manage
                           THEN Unprivileged(payload) ELSE payload)

\* The role table: the admin role, a second global role with or without
\* USER_MANAGE, and the account roles, the first of which may be missing.
RoleTables ==
    {(1 :> {ROOT}) @@ (2 :> g) @@ a @@ (4 :> {DATA_READ}) :
        g \in {{}, {USER_MANAGE}},
        a \in {<< >>, 3 :> {ACCOUNT_MANAGE}, 3 :> {DATA_READ}}}

\* The default admin and a second user with the second global role, any
\* access map and an acl or none.
InitHandlers ==
    /\ IndexAtRest(EmptyBag)
    /\ InitAdmin
    /\ user = NoUser
    /\ roles \in RoleTables
    /\ apiResult = NoResult
    /\ now = 0
    /\ tokResult = NoResult
    /\ expiredSeen = {}
    /\ userIds = UserIds
    /\ \E m \in PartialFunctions(Accounts, AccountRoleIds), c \in Options({"allow"}) :
           userRecs = [u \in UserIds |->
                          IF u = DEFAULT_ADMIN_USER_ID THEN DefaultAdmin
                          ELSE [UserModel("carol", "carol@example.com",
                                          Some(encrypt_string("carol-password")),
                                          {2}, m) EXCEPT !.acl = c]]
    /\ tokens = <<new_webui_token(1), new_webui_token(2)>>
    /\ userResult = NoResult
    /\ accountRows \in {{1}, Accounts}
    /\ inserted = << >>
    /\ cleaned = {}
    /\ accTask = [pc |-> "idle"]
    /\ syncTasks = {}
    /\ InitM
    /\ InitR

NextSelf ==
    \E caller \in UserIds, target_id \in UserIds \cup {3},
       payload \in UpdatePayloads : update_user(caller, target_id, payload)

\* The users under update-user calls.
SpecSelf == InitHandlers /\ [][NextSelf]_vars

\* The fields of a row that only a user with USER_MANAGE may change.
Privileges(row) == <<row.global_roles, row.account_access_map, row.acl>>

\* The step is an update-user call by a user without USER_MANAGE.
C35_Case ==
    /\ apiResult' # apiResult \/ userRecs' # userRecs \/ userResult' # userResult
    /\ apiResult'.op = "update_user"
    /\ ~has_permission(userRecs[apiResult'.caller], NoAccount, USER_MANAGE)

\* C35: an update-user call by a user without USER_MANAGE on their own id
\* leaves global_roles, account_access_map and acl of every row as they
\* were, and applies the other submitted fields when it returns Ok; on
\* another id it is answered Forbidden and changes no row.
C35_NoSelfEscalation ==
    [][C35_Case =>
          LET call == apiResult'
          IN  /\ \A u \in userIds : Privileges(userRecs'[u]) = Privileges(userRecs[u])
              /\ \A u \in userIds \ {call.id} : userRecs'[u] = userRecs[u]
              /\ userIds' = userIds
              /\ call.caller = call.id =>
                     /\ userResult'.result \in {"Ok", "AlreadyExists"}
                     /\ (userResult'.result = "Ok" /\ call.payload.username # None) =>
                            userRecs'[call.id].username = Unwrap(call.payload.username)
                     /\ userResult'.result # "Ok" => userRecs' = userRecs
              /\ call.caller # call.id =>
                     /\ userResult'.result = "Forbidden"
                     /\ userRecs' = userRecs]_vars

\* A user without USER_MANAGE has submitted a username together with
\* global_roles, account_access_map and acl for their own id; the call
\* returned Ok and the username is the submitted one.
C35_Witness ==
    /\ apiResult.op = "update_user"
    /\ apiResult.caller = apiResult.id
    /\ apiResult.payload.global_roles = Some({1})
    /\ apiResult.payload.account_access_map # None
    /\ apiResult.payload.acl # None
    /\ apiResult.payload.username = Some("placeholder@example.com")
    /\ userResult.result = "Ok"
    /\ ~has_permission(userRecs[apiResult.caller], NoAccount, USER_MANAGE)
    /\ userRecs[apiResult.caller].username = "placeholder@example.com"
    /\ userRecs[apiResult.caller].acl = None

\* RoleType of a role id
role_type(rid) == IF rid \in AccountRoleIds THEN "Account" ELSE "Global"

BatchAccountRoleRequest(account_ids, user_ids, role_id) ==
    [account_ids |-> account_ids, user_ids |-> user_ids, role_id |-> role_id]

\* Upper bound on the length of account_ids and of user_ids.
MaxListed == 2

\* Requests over the accounts, the users and an id that names no user, and
\* over a global role, the account roles and an id that names no role.
BatchAccountRoleRequests ==
    {BatchAccountRoleRequest(as, us, r) :
        as \in SeqsUpTo(Accounts, MaxListed),
        us \in SeqsUpTo(UserIds \cup {3}, MaxListed),
        r \in {2, 3, 4, 5}}

Listed(ids) == {ids[i] : i \in DOMAIN ids}

\* validate_existence: Ok or the first error
validate_existence(req) ==
    IF ~RoleFound(req.role_id) THEN "ResourceNotFound"
    ELSE IF role_type(req.role_id) # "Account" THEN "InvalidParameter"
    ELSE IF ~(Listed(req.account_ids) \subseteq accountRows) THEN "ResourceNotFound"
    ELSE IF ~(Listed(req.user_ids) \subseteq userIds) THEN "ResourceNotFound"
    ELSE "Ok"

\* Faulty variant of do_assign: the caller's right is taken from
\* has_permission, which a global role satisfies as well.
RECURSIVE do_assign_has_permission(_, _)
do_assign_has_permission(account_ids, context) ==
    IF account_ids = << >> THEN "Ok"
    ELSE IF ~has_permission(context, Head(account_ids), ACCOUNT_MANAGE)
         THEN "Forbidden"
         ELSE do_assign_has_permission(Tail(account_ids), context)

\* The loop of do_assign over account_ids: Ok, or the error of the first
\* account the caller's role does not allow to share
RECURSIVE do_assign(_, _)
do_assign(account_ids, context) ==
    IF account_ids = << >> THEN "Ok"
    ELSE LET account_id == Head(account_ids)
         IN  IF account_id \notin DOMAIN context.account_access_map
             THEN "Forbidden"
             ELSE IF ~RoleFound(context.account_access_map[account_id])
             THEN "InternalError"
             ELSE IF ACCOUNT_MANAGE \notin
                         roles[context.account_access_map[account_id]]
             THEN "Forbidden"
             ELSE do_assign(Tail(account_ids), context)

\* updated_user.account_access_map.insert(aid, role_id) for every aid
Granted(map, account_ids, role_id) ==
    [a \in DOMAIN map \cup Listed(account_ids) |->
        IF a \in Listed(account_ids) THEN role_id ELSE map[a]]

\* grant_batch_account_access: the rows the transaction commits
grant_batch_account_access(account_ids, user_ids, role_id) ==
    [u \in userIds |->
        IF u \in Listed(user_ids)
        THEN [userRecs[u] EXCEPT !.account_access_map =
                  Granted(@, account_ids, role_id)]
        ELSE userRecs[u]]

\* AccountApi::batch_assign_account_role(req, context), context.user being
\* the row of the caller; one request per behaviour
batch_assign_account_role(caller, req) ==
    /\ apiResult = NoResult
    /\ caller \in userIds
    /\ HandlerUnchanged
    /\ UNCHANGED <<userIds, tokens>>
    /\ apiResult' = ApiCall("batch_assign_account_role", caller, 0, req)
    /\ LET valid == validate_existence(req)
           assign == do_assign(req.account_ids, userRecs[caller])
           result == IF valid # "Ok" THEN valid ELSE assign
       IN  /\ userResult' = UserResult("batch_assign_account_role", caller,
                                       FALSE, result)
           /\ userRecs' = IF result = "Ok"
                          THEN grant_batch_account_access(req.account_ids,
                                                          req.user_ids, req.role_id)
                          ELSE userRecs

NextAssign ==
    \E caller \in UserIds, req \in BatchAccountRoleRequests :
        batch_assign_account_role(caller, req)

\* The users under batch account-role assignments.
SpecAssign == InitHandlers /\ [][NextAssign]_vars

\* The conditions under which the request may change access maps.
C36_Allowed(caller, req) ==
    /\ \A a \in Listed(req.account_ids) :
           /\ a \in DOMAIN userRecs[caller].account_access_map
           /\ userRecs[caller].account_access_map[a] \in DOMAIN roles
           /\ ACCOUNT_MANAGE \in roles[userRecs[caller].account_access_map[a]]
    /\ req.role_id \in DOMAIN roles
    /\ req.role_id \in AccountRoleIds
    /\ Listed(req.account_ids) \subseteq accountRows
    /\ Listed(req.user_ids) \subseteq userIds

\* Every listed user has the role on every listed account, and nothing else
\* differs from the rows before.
C36_Assigned(req) ==
    /\ DOMAIN userRecs' = DOMAIN userRecs
    /\ \A u \in DOMAIN userRecs :
           LET before == userRecs[u].account_access_map
               after == userRecs'[u].account_access_map
           IN  /\ [userRecs'[u] EXCEPT !.account_access_map = before] = userRecs[u]
               /\ IF u \in Listed(req.user_ids)
                  THEN /\ DOMAIN after = DOMAIN before \cup Listed(req.account_ids)
                       /\ \A a \in DOMAIN after :
                              after[a] = IF a \in Listed(req.account_ids)
                                         THEN req.role_id ELSE before[a]
                  ELSE after = before

\* C36: a batch account-role assignment that is not allowed (the caller's
\* own access map does not give a role with ACCOUNT_MANAGE on every listed
\* account, or the role is missing or not of kind Account, or a listed
\* account or user does not exist) fails and changes no row; one that
\* succeeds gives every listed user the role on every listed account and
\* changes nothing else.
C36_BatchAssign ==
    [][(apiResult' # apiResult /\ apiResult'.op = "batch_assign_account_role") =>
          LET call == apiResult'
          IN  /\ ~C36_Allowed(call.caller, call.payload) =>
                     userResult'.result # "Ok" /\ userRecs' = userRecs
              /\ userResult'.result = "Ok" => C36_Assigned(call.payload)]_vars

\* A caller whose role on both accounts carries ACCOUNT_MANAGE has assigned
\* a role on both accounts to both users, which changed the access maps.
C36_Witness ==
    /\ apiResult.op = "batch_assign_account_role"
    /\ userResult.result = "Ok"
    /\ Listed(apiResult.payload.account_ids) = Accounts
    /\ Listed(apiResult.payload.user_ids) = UserIds
    /\ apiResult.payload.role_id = 4
    /\ \A u \in UserIds, a \in Accounts : userRecs[u].account_access_map[a] = 4

(***************************************************************************)
(* Part XIII: the offset of a search page in 64 bits                       *)
(* (message/search.rs: SearchRequest::validate; indexer/manager.rs:        *)
(* EnvelopeIndexManager::search)                                           *)
(***************************************************************************)
\* The limit of validate on page_size (500 in the source), scaled down with
\* U64.
ScaledPageSize == 4

\* SearchRequest::validate with the scaled limit
validate(page, page_size) ==
    IF page = 0 \/ page_size = 0 THEN "InvalidParameter"
    ELSE IF page_size > ScaledPageSize THEN "InvalidParameter"
    ELSE "Ok"

\* The answer to a search over total matching documents: the error, the
\* position of the first item and the number of items, and the totals.
PageOf(error, first, items, total_items, total_pages) ==
    [error |-> error, first |-> first, items |-> items,
     total_items |-> total_items, total_pages |-> total_pages]

\* EnvelopeIndexManager::search for a query that matches total documents,
\* with page and page_size as u64. An arithmetic overflow panics in a build
\* with overflow checks and wraps in a build without.
search_page(total, page, page_size, overflow_checks) ==
    IF page = 0 \/ page_size = 0 THEN PageOf("panic", 0, 0, 0, 0)
    ELSE IF total = 0 THEN PageOf("none", 0, 0, 0, 0)
    ELSE LET product == (page - 1) * page_size
             offset == product % U64
             total_pages == DivCeil(total, page_size)
         IN  IF product >= U64 /\ overflow_checks THEN PageOf("panic", 0, 0, 0, 0)
             ELSE IF offset > total THEN PageOf("none", 0, 0, total, total_pages)
             ELSE PageOf("none", offset + 1, Min(page_size, total - offset),
                         total, total_pages)

\* search_messages_impl for a request whose filter matches total documents;
\* one request per behaviour
SearchPage(total, page, page_size, overflow_checks) ==
    /\ apiResult = NoResult
    /\ apiResult' =
          [op |-> "search_page", total |-> total, page |-> page,
           page_size |-> page_size, overflow_checks |-> overflow_checks,
           answer |-> IF validate(page, page_size) # "Ok"
                      THEN PageOf(validate(page, page_size), 0, 0, 0, 0)
                      ELSE search_page(total, page, page_size, overflow_checks)]
    /\ UNCHANGED <<ivars, avars, user, roles, now, tokens, userIds, tokResult,
                   expiredSeen, pvars>>

NextOffset ==
    \E total \in 0..MaxTotal, page \in 0..(U64 - 1),
       page_size \in 0..(ScaledPageSize + 1), overflow_checks \in BOOLEAN :
        SearchPage(total, page, page_size, overflow_checks)

\* One search with page any value of the integer type.
SpecOffset == InitIngest /\ [][NextOffset]_vars

\* The request was accepted by validate.
C37_Accepted ==
    /\ apiResult.op = "search_page"
    /\ validate(apiResult.page, apiResult.page_size) = "Ok"

\* C37: for every request accepted by validate the search does not panic
\* and does not wrap the offset: a page that starts past the last matching
\* document is answered with no items, total_items = total and
\* total_pages = ceil(total / page_size).
C37_OffsetFits ==
    C37_Accepted =>
        /\ apiResult.answer.error = "none"
        /\ (apiResult.page - 1) * apiResult.page_size >= apiResult.total =>
               /\ apiResult.answer.items = 0
               /\ apiResult.answer.total_items = apiResult.total
               /\ apiResult.answer.total_pages =
                      DivCeil(apiResult.total, apiResult.page_size)

\* An accepted request whose offset does not fit the integer type was
\* answered, in a build without overflow checks, with the items of the
\* first page.
C37_Witness ==
    /\ C37_Accepted
    /\ (apiResult.page - 1) * apiResult.page_size = U64
    /\ ~apiResult.overflow_checks
    /\ apiResult.total > 0
    /\ apiResult.answer.first = 1
    /\ apiResult.answer.items > 0

====
